---- MODULE Spec2Model ----
(***************************************************************************)
(* PawPal scheduling engine (pawpal_system.py): Owner / Pet / Task and the *)
(* Scheduler's generation pass, modelled loop iteration by loop iteration. *)
(*                                                                         *)
(* Python values are represented as follows.                               *)
(*   None                 the empty tuple <<>>                             *)
(*   Optional[int] n      <<n>>                                            *)
(*   "HH:MM" string       <<h, m>>  (the two fields split(":") yields;     *)
(*                        zero padded, so string order = tuple order)      *)
(*   object identity      a task is its index in tasks, a pet its index    *)
(*                        in pets                                          *)
(*   f-string messages    a record holding the fixed text and the values   *)
(*                        formatted into it                                *)
(***************************************************************************)
EXTENDS Integers, Sequences, FiniteSets, TLC

(***************************************************************************)
(* Bounds of the model and the inputs drawn for the operations.            *)
(***************************************************************************)
MaxTasks == 3

None == <<>>
Some(x) == <<x>>

LOW == 1
MEDIUM == 2
HIGH == 3

PriorityName(p) ==
    CASE p = LOW -> "LOW"
      [] p = MEDIUM -> "MEDIUM"
      [] p = HIGH -> "HIGH"

\* Tasks a user enters: fixed-time and flexible ones, with valid, missing and
\* zero durations; two of the fixed ones overlap, two leave only short gaps.
TaskInputs ==
    { [description |-> "Night watch", time |-> <<0, 0>>,  duration |-> Some(700), priority |-> HIGH],
      [description |-> "Midnight meds", time |-> <<0, 0>>,  duration |-> Some(30),  priority |-> LOW],
      [description |-> "Day care",    time |-> <<12, 0>>, duration |-> Some(700), priority |-> MEDIUM],
      [description |-> "Noon meal",   time |-> <<12, 0>>, duration |-> None,      priority |-> HIGH],
      [description |-> "Brush",       time |-> None,      duration |-> Some(30),  priority |-> LOW],
      [description |-> "Long hike",   time |-> None,      duration |-> Some(700), priority |-> HIGH],
      [description |-> "Untimed",     time |-> None,      duration |-> Some(0),   priority |-> MEDIUM],
      [description |-> "Play",        time |-> None,      duration |-> Some(30),  priority |-> HIGH] }

AvailableTimes == {-30, 30, 700, 1440}

PreferenceInputs == {None, Some("morning"), Some("Evening")}

PetNames == <<"Buddy", "Whiskers">>

Statuses == {"pending", "scheduled", "completed", "skipped"}

(***************************************************************************)
(* Program state.                                                          *)
(***************************************************************************)
VARIABLES
    owner,                  \* the Owner: name, preferences, pets, available_time_minutes
    pets,                   \* pets[p]: name, owner back-reference, tasks (list of task ids)
    tasks,                  \* tasks[t]: the fields of Task object t
    pc,                     \* position of the generation pass
    all_tasks,              \* locals of generate_schedule ...
    fixed_time_tasks,
    flexible_tasks,
    sorted_flexible_tasks,
    idx,                    \* position of the running for-loop
    scheduled_tasks,
    skipped_tasks,
    remaining_time_minutes,
    total_time_used,
    occupied_intervals,
    result,                 \* the dictionary generate_schedule returned, or None
    call,                   \* the latest call of a Task method: what it returned and raised
    other_owner             \* a second Owner

vars == <<owner, pets, tasks, pc, all_tasks, fixed_time_tasks, flexible_tasks,
          sorted_flexible_tasks, idx, scheduled_tasks, skipped_tasks,
          remaining_time_minutes, total_time_used, occupied_intervals, result,
          call, other_owner>>

locals == <<all_tasks, fixed_time_tasks, flexible_tasks, sorted_flexible_tasks, idx,
            scheduled_tasks, skipped_tasks, remaining_time_minutes, total_time_used,
            occupied_intervals>>

(***************************************************************************)
(* Python's sorted(): a stable sort by a key; keys are tuples of integers  *)
(* compared lexicographically.                                             *)
(***************************************************************************)
RECURSIVE KeyLess(_, _)
KeyLess(a, b) ==
    IF a = <<>> THEN b # <<>>
    ELSE IF b = <<>> THEN FALSE
    ELSE IF Head(a) < Head(b) THEN TRUE
    ELSE IF Head(a) > Head(b) THEN FALSE
    ELSE KeyLess(Tail(a), Tail(b))

\* insert p behind every element whose key is not greater than p's
RECURSIVE InsertByKey(_, _)
InsertByKey(s, p) ==
    IF s = <<>> THEN <<p>>
    ELSE IF KeyLess(p.key, Head(s).key) THEN <<p>> \o s
    ELSE <<Head(s)>> \o InsertByKey(Tail(s), p)

RECURSIVE SortPairs(_)
SortPairs(s) ==
    IF s = <<>> THEN <<>>
    ELSE InsertByKey(SortPairs(SubSeq(s, 1, Len(s) - 1)), s[Len(s)])

\* sorted(items, key=...) where keys[i] is the key of items[i]
Sorted(items, keys) ==
    LET paired == [i \in 1..Len(items) |-> [key |-> keys[i], val |-> items[i]]]
        done == SortPairs(paired)
    IN [i \in 1..Len(items) |-> done[i].val]

RECURSIVE Concat(_)
Concat(ss) == IF ss = <<>> THEN <<>> ELSE Head(ss) \o Concat(Tail(ss))

(***************************************************************************)
(* Task.change_status: the four recognised values are assigned; any other  *)
(* value raises ValueError before anything is assigned.                    *)
(***************************************************************************)
\* change_status without the case for "skipped"
change_status_without_skipped(task, new_status) ==
    CASE new_status = "completed" -> [task EXCEPT !.status = "completed"]
      [] new_status = "scheduled" -> [task EXCEPT !.status = "scheduled"]
      [] new_status = "pending" -> [task EXCEPT !.status = "pending"]
      [] OTHER -> task

\* change_status assigning whatever it is given
change_status_unchecked(task, new_status) == [task EXCEPT !.status = new_status]

change_status(task, new_status) ==
    CASE new_status = "completed" -> [task EXCEPT !.status = "completed"]
      [] new_status = "scheduled" -> [task EXCEPT !.status = "scheduled"]
      [] new_status = "skipped" -> [task EXCEPT !.status = "skipped"]
      [] new_status = "pending" -> [task EXCEPT !.status = "pending"]
      [] OTHER -> task

\* the ValueError change_status raises for new_status, or None
change_status_error(new_status) ==
    CASE new_status = "completed" -> None
      [] new_status = "scheduled" -> None
      [] new_status = "skipped" -> None
      [] new_status = "pending" -> None
      [] OTHER -> Some([ type |-> "ValueError", text |-> "Invalid status",
                         value |-> new_status ])

\* get_pending_tasks returning every task that is not completed
get_pending_tasks_not_completed(pet, ts) ==
    SelectSeq(pet.tasks, LAMBDA t : ts[t].status # "completed")

\* Pet.get_pending_tasks, as task ids in list order
get_pending_tasks(pet, ts) == SelectSeq(pet.tasks, LAMBDA t : ts[t].status = "pending")

(***************************************************************************)
(* Scheduler helpers.                                                      *)
(***************************************************************************)
day_end_time == 24 * 60

\* str.lower() on the strings that are entered: window names, pet names and
\* status names; a string without upper-case letters is returned as it is
Lower(s) ==
    CASE s = "Evening" -> "evening"
      [] s = "Morning" -> "morning"
      [] s = "Afternoon" -> "afternoon"
      [] s = "Buddy" -> "buddy"
      [] s = "BUDDY" -> "buddy"
      [] s = "Milo" -> "milo"
      [] s = "MILO" -> "milo"
      [] s = "PENDING" -> "pending"
      [] s = "Completed" -> "completed"
      [] OTHER -> s

\* dict.get("preferred_time_window", default) on the owner's preferences
PreferencesGet(preferences, default) ==
    IF preferences = None THEN default ELSE preferences[1]

_calculate_total_available_time(own) == own.available_time_minutes

\* _get_start_time looking the window up as it was entered, without lower()
_get_start_time_case_sensitive(own) ==
    IF own.preferences = None THEN 480
    ELSE LET time_window == PreferencesGet(own.preferences, "")
         IN CASE time_window = "morning" -> 360
              [] time_window = "afternoon" -> 720
              [] time_window = "evening" -> 1080
              [] OTHER -> 480

_get_start_time(own) ==
    IF own.preferences = None THEN 480
    ELSE LET time_window == Lower(PreferencesGet(own.preferences, ""))
         IN CASE time_window = "morning" -> 360
              [] time_window = "afternoon" -> 720
              [] time_window = "evening" -> 1080
              [] OTHER -> 480

DurationOrZero(task) ==
    IF task.duration # None /\ task.duration[1] # 0 THEN task.duration[1] ELSE 0

\* the priority sort applied to the tasks that have a duration only
_sort_tasks_by_priority_with_duration(list, ts) ==
    LET kept == SelectSeq(list, LAMBDA t : ts[t].duration # None /\ ts[t].duration[1] # 0)
    IN Sorted(kept, [i \in 1..Len(kept) |->
                       <<0 - ts[kept[i]].priority, DurationOrZero(ts[kept[i]])>>])

\* the priority sort with the lowest priority first
_sort_tasks_by_priority_low_first(list, ts) ==
    Sorted(list, [i \in 1..Len(list) |->
                    <<ts[list[i]].priority, DurationOrZero(ts[list[i]])>>])

\* sorted(tasks, key=lambda t: (-t.priority, t.duration if t.duration else 0))
_sort_tasks_by_priority(list, ts) ==
    Sorted(list, [i \in 1..Len(list) |->
                    <<0 - ts[list[i]].priority, DurationOrZero(ts[list[i]])>>])

_can_fit_task(task, remaining_time) ==
    IF task.duration = None THEN FALSE ELSE task.duration[1] <= remaining_time

\* f"{hours:02d}:{mins:02d}"
_format_time(minutes) == <<minutes \div 60, minutes % 60>>

\* _time_to_minutes reading "HH:MM" as the decimal number HHMM
_time_to_minutes_decimal(time_str) == time_str[1] * 100 + time_str[2]

\* hours, minutes = map(int, time_str.split(":"))
_time_to_minutes(time_str) == time_str[1] * 60 + time_str[2]

SortIntervals(intervals) ==
    Sorted(intervals, [i \in 1..Len(intervals) |-> <<intervals[i][1]>>])

\* SlotScan without "if end > cursor: cursor = end"
RECURSIVE SlotScan_cursor_kept(_, _, _, _)
SlotScan_cursor_kept(cursor, intervals, duration, window_end) ==
    IF intervals = <<>>
    THEN IF cursor + duration <= window_end THEN Some(cursor) ELSE None
    ELSE IF cursor + duration <= Head(intervals)[1] THEN Some(cursor)
    ELSE SlotScan_cursor_kept(cursor, Tail(intervals), duration, window_end)

\* SlotScan without the test for a gap before an interval
RECURSIVE SlotScan_no_gaps(_, _, _, _)
SlotScan_no_gaps(cursor, intervals, duration, window_end) ==
    IF intervals = <<>>
    THEN IF cursor + duration <= window_end THEN Some(cursor) ELSE None
    ELSE LET end == Head(intervals)[2]
         IN SlotScan_no_gaps(IF end > cursor THEN end ELSE cursor,
                             Tail(intervals), duration, window_end)

\* the for loop of _find_available_slot with the test that follows it
RECURSIVE SlotScan(_, _, _, _)
SlotScan(cursor, intervals, duration, window_end) ==
    IF intervals = <<>>
    THEN IF cursor + duration <= window_end THEN Some(cursor) ELSE None
    ELSE LET start == Head(intervals)[1]
             end == Head(intervals)[2]
         IN IF cursor + duration <= start THEN Some(cursor)
            ELSE SlotScan(IF end > cursor THEN end ELSE cursor,
                          Tail(intervals), duration, window_end)

\* the search accepting a start at which the window has not ended yet
_find_available_slot_end_unchecked(duration, intervals, window_start, window_end) ==
    SlotScan(window_start, SortIntervals(intervals), duration, window_end + duration)

_find_available_slot(duration, intervals, window_start, window_end) ==
    SlotScan(window_start, SortIntervals(intervals), duration, window_end)

Max(a, b) == IF a >= b THEN a ELSE b
Min(a, b) == IF a <= b THEN a ELSE b

RECURSIVE OccupiedTime(_, _, _)
OccupiedTime(intervals, window_start, window_end) ==
    IF intervals = <<>> THEN 0
    ELSE LET clamped_start == Max(Head(intervals)[1], window_start)
             clamped_end == Min(Head(intervals)[2], window_end)
         IN (IF clamped_start < clamped_end THEN clamped_end - clamped_start ELSE 0)
            + OccupiedTime(Tail(intervals), window_start, window_end)

_calculate_free_time(intervals, window_start, window_end) ==
    Max(0, (window_end - window_start) - OccupiedTime(intervals, window_start, window_end))

\* the explanation with the sentence on skipped tasks whatever their number
_generate_explanation_always_skipped(own, scheduled, skipped, available_time, time_used) ==
    [ text |-> "Schedule generated",
      name |-> IF own.name # None THEN own.name[1] ELSE "pet owner",
      available_time |-> available_time,
      time_window |-> IF own.preferences # None /\ PreferencesGet(own.preferences, "") # ""
                      THEN Some(PreferencesGet(own.preferences, "")) ELSE None,
      scheduled |-> IF scheduled # <<>> THEN <<Len(scheduled), time_used>> ELSE None,
      skipped |-> <<Len(skipped)>> ]

\* The explanation text: the base sentence and the two optional sentences,
\* each with the values formatted into it.
_generate_explanation(own, scheduled, skipped, available_time, time_used) ==
    [ text |-> "Schedule generated",
      name |-> IF own.name # None THEN own.name[1] ELSE "pet owner",
      available_time |-> available_time,
      time_window |-> IF own.preferences # None /\ PreferencesGet(own.preferences, "") # ""
                      THEN Some(PreferencesGet(own.preferences, "")) ELSE None,
      scheduled |-> IF scheduled # <<>> THEN <<Len(scheduled), time_used>> ELSE None,
      skipped |-> IF skipped # <<>> THEN <<Len(skipped)>> ELSE None ]

(***************************************************************************)
(* One generation pass.  P is the state the loops of generate_schedule     *)
(* work on: the tasks (for their status) and the pass's running locals.    *)
(***************************************************************************)
PetNameOf(task, ps) == IF task.pet # None THEN ps[task.pet[1]].name ELSE "unknown pet"

SkippedEntry(t, text, args) == [task |-> t, reason |-> [text |-> text, args |-> args]]

ScheduledEntry(t, task, ps, start, end, fixed) ==
    [ task |-> t,
      pet_name |-> PetNameOf(task, ps),
      start_time_minutes |-> start,
      end_time_minutes |-> end,
      time_range |-> <<_format_time(start), _format_time(end)>>,
      reason |-> [ fixed_time |-> IF fixed THEN task.time ELSE None,
                   priority |-> PriorityName(task.priority),
                   duration |-> task.duration[1],
                   pet |-> PetNameOf(task, ps) ] ]

\* the placement of a fixed-time task leaving total_time_used as it was
FixedPlace_total_not_counted(P, ps, t) ==
    LET task == P.tasks[t]
        task_start_time == _time_to_minutes(task.time)
        task_end_time == task_start_time + task.duration[1]
    IN [P EXCEPT !.scheduled_tasks =
             Append(@, ScheduledEntry(t, task, ps, task_start_time, task_end_time, TRUE)),
                 !.occupied_intervals =
             SortIntervals(Append(@, <<task_start_time, task_end_time>>)),
                 !.remaining_time_minutes = @ - task.duration[1],
                 !.tasks[t] = change_status(@, "scheduled")]

\* a fixed-time task that passed both tests: placed at its declared time
FixedPlace(P, ps, t) ==
    LET task == P.tasks[t]
        task_start_time == _time_to_minutes(task.time)
        task_end_time == task_start_time + task.duration[1]
    IN [P EXCEPT !.scheduled_tasks =
             Append(@, ScheduledEntry(t, task, ps, task_start_time, task_end_time, TRUE)),
                 !.occupied_intervals =
             SortIntervals(Append(@, <<task_start_time, task_end_time>>)),
                 !.remaining_time_minutes = @ - task.duration[1],
                 !.total_time_used = @ + task.duration[1],
                 !.tasks[t] = change_status(@, "scheduled")]

\* the fixed loop body whose budget skip leaves the status alone
FixedIteration_budget_skip_keeps_status(P, ps, t) ==
    LET task == P.tasks[t] IN
    IF task.duration = None \/ task.duration[1] <= 0
    THEN [P EXCEPT !.skipped_tasks =
                Append(@, SkippedEntry(t, "Task has no valid duration specified", <<>>))]
    ELSE IF task.duration[1] > P.remaining_time_minutes
    THEN [P EXCEPT !.skipped_tasks =
                Append(@, SkippedEntry(t, "Insufficient total available time",
                                       <<P.remaining_time_minutes, task.duration[1]>>))]
    ELSE FixedPlace(P, ps, t)

\* the fixed loop body marking a task without valid duration as skipped
FixedIteration_invalid_marked_skipped(P, ps, t) ==
    LET task == P.tasks[t] IN
    IF task.duration = None \/ task.duration[1] <= 0
    THEN [P EXCEPT !.skipped_tasks =
                Append(@, SkippedEntry(t, "Task has no valid duration specified", <<>>)),
                   !.tasks[t] = change_status(@, "skipped")]
    ELSE IF task.duration[1] > P.remaining_time_minutes
    THEN [P EXCEPT !.skipped_tasks =
                Append(@, SkippedEntry(t, "Insufficient total available time",
                                       <<P.remaining_time_minutes, task.duration[1]>>)),
                   !.tasks[t] = change_status(@, "skipped")]
    ELSE FixedPlace(P, ps, t)

\* body of "for task in fixed_time_tasks"
FixedIteration(P, ps, t) ==
    LET task == P.tasks[t] IN
    IF task.duration = None \/ task.duration[1] <= 0
    THEN [P EXCEPT !.skipped_tasks =
                Append(@, SkippedEntry(t, "Task has no valid duration specified", <<>>))]
    ELSE IF task.duration[1] > P.remaining_time_minutes
    THEN [P EXCEPT !.skipped_tasks =
                Append(@, SkippedEntry(t, "Insufficient total available time",
                                       <<P.remaining_time_minutes, task.duration[1]>>)),
                   !.tasks[t] = change_status(@, "skipped")]
    ELSE FixedPlace(P, ps, t)

\* the two searches of the flexible pass: from the preferred start to the end
\* of the day, then from midnight to the preferred start
FlexibleSlot(duration, intervals, preferred_start_time) ==
    LET first == _find_available_slot(duration, intervals, preferred_start_time, day_end_time)
    IN IF first = None /\ preferred_start_time > 0
       THEN _find_available_slot(duration, intervals, 0, preferred_start_time)
       ELSE first

\* the placement of a flexible task writing the slot found into task.time
FlexiblePlace_time_stored(P, own, ps, t) ==
    LET task == P.tasks[t]
        slot == FlexibleSlot(task.duration[1], P.occupied_intervals, _get_start_time(own))
    IN IF slot # None
       THEN LET task_start_time == slot[1]
                task_end_time == task_start_time + task.duration[1]
            IN [P EXCEPT !.scheduled_tasks =
                     Append(@, ScheduledEntry(t, task, ps, task_start_time,
                                              task_end_time, FALSE)),
                         !.occupied_intervals =
                     SortIntervals(Append(@, <<task_start_time, task_end_time>>)),
                         !.remaining_time_minutes = @ - task.duration[1],
                         !.total_time_used = @ + task.duration[1],
                         !.tasks[t] = [change_status(@, "scheduled") EXCEPT
                                          !.time = <<task_start_time \div 60,
                                                     task_start_time % 60>>]]
       ELSE LET remaining == _calculate_free_time(P.occupied_intervals, 0, day_end_time)
            IN [P EXCEPT !.skipped_tasks =
                     Append(@, SkippedEntry(t, "Insufficient time remaining",
                                            <<remaining, task.duration[1]>>)),
                         !.tasks[t] = change_status(@, "skipped")]

\* a flexible task that passed both tests: placed in the slot found, or
\* skipped when neither search finds one
FlexiblePlace(P, own, ps, t) ==
    LET task == P.tasks[t]
        slot == FlexibleSlot(task.duration[1], P.occupied_intervals, _get_start_time(own))
    IN IF slot # None
       THEN LET task_start_time == slot[1]
                task_end_time == task_start_time + task.duration[1]
            IN [P EXCEPT !.scheduled_tasks =
                     Append(@, ScheduledEntry(t, task, ps, task_start_time,
                                              task_end_time, FALSE)),
                         !.occupied_intervals =
                     SortIntervals(Append(@, <<task_start_time, task_end_time>>)),
                         !.remaining_time_minutes = @ - task.duration[1],
                         !.total_time_used = @ + task.duration[1],
                         !.tasks[t] = change_status(@, "scheduled")]
       ELSE LET remaining == _calculate_free_time(P.occupied_intervals, 0, day_end_time)
            IN [P EXCEPT !.skipped_tasks =
                     Append(@, SkippedEntry(t, "Insufficient time remaining",
                                            <<remaining, task.duration[1]>>)),
                         !.tasks[t] = change_status(@, "skipped")]

\* the flexible loop body with the comparison of the budget test turned round
FlexibleIteration_budget_test_inverted(P, own, ps, t) ==
    LET task == P.tasks[t] IN
    IF task.duration = None \/ task.duration[1] <= 0
    THEN [P EXCEPT !.skipped_tasks =
                Append(@, SkippedEntry(t, "Task has no valid duration specified", <<>>))]
    ELSE IF task.duration[1] < P.remaining_time_minutes
    THEN [P EXCEPT !.skipped_tasks =
                Append(@, SkippedEntry(t, "Insufficient total available time",
                                       <<P.remaining_time_minutes, task.duration[1]>>)),
                   !.tasks[t] = change_status(@, "skipped")]
    ELSE FlexiblePlace(P, own, ps, t)

\* the flexible loop body without the test against the remaining budget
FlexibleIteration_no_budget_test(P, own, ps, t) ==
    LET task == P.tasks[t] IN
    IF task.duration = None \/ task.duration[1] <= 0
    THEN [P EXCEPT !.skipped_tasks =
                Append(@, SkippedEntry(t, "Task has no valid duration specified", <<>>))]
    ELSE FlexiblePlace(P, own, ps, t)

\* body of "for task in sorted_flexible_tasks"
FlexibleIteration(P, own, ps, t) ==
    LET task == P.tasks[t] IN
    IF task.duration = None \/ task.duration[1] <= 0
    THEN [P EXCEPT !.skipped_tasks =
                Append(@, SkippedEntry(t, "Task has no valid duration specified", <<>>))]
    ELSE IF task.duration[1] > P.remaining_time_minutes
    THEN [P EXCEPT !.skipped_tasks =
                Append(@, SkippedEntry(t, "Insufficient total available time",
                                       <<P.remaining_time_minutes, task.duration[1]>>)),
                   !.tasks[t] = change_status(@, "skipped")]
    ELSE FlexiblePlace(P, own, ps, t)

\* all_tasks: the pending tasks of the owner's pets, pet by pet
GatherPending(own, ps, ts) ==
    Concat([i \in 1..Len(own.pets) |-> get_pending_tasks(ps[own.pets[i]], ts)])

\* the fixed-time tasks sorted by (time, priority): lower priority first
SortFixed_low_priority_first(list, ts) ==
    Sorted(list, [i \in 1..Len(list) |->
                    <<_time_to_minutes(ts[list[i]].time), ts[list[i]].priority>>])

\* sorted(fixed_time_tasks, key=lambda t: (_time_to_minutes(t.time), -t.priority))
SortFixed(list, ts) ==
    Sorted(list, [i \in 1..Len(list) |->
                    <<_time_to_minutes(ts[list[i]].time), 0 - ts[list[i]].priority>>])

\* the list returned in placement order, the final sort left out
SortScheduled_placement_order(scheduled) == scheduled

\* scheduled_tasks.sort(key=lambda item: item["start_time_minutes"])
SortScheduled(scheduled) ==
    Sorted(scheduled, [i \in 1..Len(scheduled) |-> <<scheduled[i].start_time_minutes>>])

\* the early return with the text of the no-pending-tasks case in both cases
EarlyExit_no_pending_text(text) ==
    [ scheduled_tasks |-> <<>>, skipped_tasks |-> <<>>, total_time_used |-> 0,
      explanation |-> [ text |-> "No pending tasks to schedule.", name |-> "",
                        available_time |-> 0, time_window |-> None,
                        scheduled |-> None, skipped |-> None ] ]

EarlyExit(text) ==
    [ scheduled_tasks |-> <<>>, skipped_tasks |-> <<>>, total_time_used |-> 0,
      explanation |-> [ text |-> text, name |-> "", available_time |-> 0,
                        time_window |-> None, scheduled |-> None, skipped |-> None ] ]

ScheduleResult(own, scheduled, skipped, time_used) ==
    LET ordered == SortScheduled(scheduled)
    IN [ scheduled_tasks |-> ordered, skipped_tasks |-> skipped,
         total_time_used |-> time_used,
         explanation |-> _generate_explanation(own, ordered, skipped,
                             _calculate_total_available_time(own), time_used) ]

InitialPass(own, ts) ==
    [ tasks |-> ts, scheduled_tasks |-> <<>>, skipped_tasks |-> <<>>,
      remaining_time_minutes |-> _calculate_total_available_time(own),
      total_time_used |-> 0, occupied_intervals |-> <<>> ]

RECURSIVE FixedPass(_, _, _)
FixedPass(P, ps, list) ==
    IF list = <<>> THEN P ELSE FixedPass(FixedIteration(P, ps, Head(list)), ps, Tail(list))

RECURSIVE FlexiblePass(_, _, _, _)
FlexiblePass(P, own, ps, list) ==
    IF list = <<>> THEN P
    ELSE FlexiblePass(FlexibleIteration(P, own, ps, Head(list)), own, ps, Tail(list))

\* generate_schedule running the flexible loop before the fixed-time loop
generate_schedule_flexible_first(own, ps, ts) ==
    LET gathered == GatherPending(own, ps, ts)
        fixed == SortFixed(SelectSeq(gathered, LAMBDA t : ts[t].time # None), ts)
        flexible == _sort_tasks_by_priority(SelectSeq(gathered, LAMBDA t : ts[t].time = None), ts)
        P == FixedPass(FlexiblePass(InitialPass(own, ts), own, ps, flexible), ps, fixed)
    IN IF gathered = <<>>
       THEN [result |-> EarlyExit("No pending tasks to schedule."), tasks |-> ts]
       ELSE [result |-> ScheduleResult(own, P.scheduled_tasks, P.skipped_tasks,
                                       P.total_time_used),
             tasks |-> P.tasks]

\* generate_schedule as a function of the owner, the pets and the tasks: the
\* returned dictionary, and the tasks with the statuses it leaves
generate_schedule(own, ps, ts) ==
    LET gathered == GatherPending(own, ps, ts)
        fixed == SortFixed(SelectSeq(gathered, LAMBDA t : ts[t].time # None), ts)
        flexible == _sort_tasks_by_priority(SelectSeq(gathered, LAMBDA t : ts[t].time = None), ts)
        P == FlexiblePass(FixedPass(InitialPass(own, ts), ps, fixed), own, ps, flexible)
    IN IF gathered = <<>>
       THEN [result |-> EarlyExit("No pending tasks to schedule."), tasks |-> ts]
       ELSE [result |-> ScheduleResult(own, P.scheduled_tasks, P.skipped_tasks,
                                       P.total_time_used),
             tasks |-> P.tasks]

(***************************************************************************)
(* Scheduler.detect_conflicts over a list of tasks.                        *)
(***************************************************************************)
\* the index pairs (i, j), i < j <= n, in the order the two loops visit them
RECURSIVE IndexPairs(_, _, _)
IndexPairs(i, j, n) ==
    IF i >= n THEN <<>>
    ELSE IF j > n THEN IndexPairs(i + 1, i + 2, n)
    ELSE <<<<i, j>>>> \o IndexPairs(i, j + 1, n)

\* the helper local to detect_conflicts
time_to_minutes(time_str) == time_str[1] * 60 + time_str[2]

\* the overlap test requiring task2 to start strictly inside task1
ConflictingPair_start_inside(task1, task2) ==
    LET task1_start == time_to_minutes(task1.time)
        task1_end == task1_start + task1.duration[1]
        task2_start == time_to_minutes(task2.time)
    IN task1_start < task2_start /\ task2_start < task1_end

\* the overlap test with <= in place of <
ConflictingPair_touching(task1, task2) ==
    LET task1_start == time_to_minutes(task1.time)
        task1_end == task1_start + task1.duration[1]
        task2_start == time_to_minutes(task2.time)
        task2_end == task2_start + task2.duration[1]
    IN task1_start <= task2_end /\ task2_start <= task1_end

\* the overlap test on the pair (task1, task2)
ConflictingPair(task1, task2) ==
    LET task1_start == time_to_minutes(task1.time)
        task1_end == task1_start + task1.duration[1]
        task2_start == time_to_minutes(task2.time)
        task2_end == task2_start + task2.duration[1]
    IN task1_start < task2_end /\ task2_start < task1_end

detect_conflicts(list, ps, ts) ==
    LET tasks_with_time ==
            SelectSeq(list, LAMBDA t : ts[t].time # None /\ ts[t].duration # None)
        pairs == SelectSeq(IndexPairs(1, 2, Len(tasks_with_time)),
                           LAMBDA ij : ConflictingPair(ts[tasks_with_time[ij[1]]],
                                                       ts[tasks_with_time[ij[2]]]))
    IN [k \in 1..Len(pairs) |->
          LET task1 == tasks_with_time[pairs[k][1]]
              task2 == tasks_with_time[pairs[k][2]]
          IN [ task1 |-> task1, task2 |-> task2,
               message |-> [ text |-> "CONFLICT",
                             description1 |-> ts[task1].description,
                             pet1_name |-> IF ts[task1].pet # None
                                           THEN ps[ts[task1].pet[1]].name ELSE "Unknown",
                             time1 |-> ts[task1].time,
                             description2 |-> ts[task2].description,
                             pet2_name |-> IF ts[task2].pet # None
                                           THEN ps[ts[task2].pet[1]].name ELSE "Unknown",
                             time2 |-> ts[task2].time ] ]]

(***************************************************************************)
(* Construction and the collections.                                       *)
(***************************************************************************)
\* Task(description=..., duration=..., priority=..., time=...) with the
\* dataclass defaults for the other fields
Task(description, duration, priority, time) ==
    [ description |-> description, duration |-> duration, priority |-> priority,
      status |-> "pending", frequency |-> "once", pet |-> None, time |-> time,
      due_date |-> None ]

\* "task in self.tasks": list membership is by identity or by dataclass equality
TaskIn(t, list, ts) == \E i \in 1..Len(list) : list[i] = t \/ ts[list[i]] = ts[t]

\* Pet.add_task on pet p and task t: the pets and tasks afterwards
add_task(ps, ts, p, t) ==
    IF ~TaskIn(t, ps[p].tasks, ts)
    THEN [ pets |-> [ps EXCEPT ![p].tasks = Append(@, t)],
           tasks |-> [ts EXCEPT ![t].pet = Some(p)] ]
    ELSE [ pets |-> ps, tasks |-> ts ]

\* Task(...) with frequency and due_date given as well
RecurringTask(description, duration, priority, frequency, time, due_date) ==
    [ Task(description, duration, priority, time)
        EXCEPT !.frequency = frequency, !.due_date = due_date ]

\* the index of the element list.remove(task) removes: the first one that is
\* the task or equals it
RECURSIVE FirstEqual(_, _, _, _)
FirstEqual(t, list, ts, i) ==
    IF list[i] = t \/ ts[list[i]] = ts[t] THEN i ELSE FirstEqual(t, list, ts, i + 1)

\* Pet.remove_task on pet p and task t: the pets and tasks afterwards
remove_task(ps, ts, p, t) ==
    IF TaskIn(t, ps[p].tasks, ts)
    THEN LET i == FirstEqual(t, ps[p].tasks, ts, 1)
         IN [ pets |-> [ps EXCEPT ![p].tasks =
                            SubSeq(@, 1, i - 1) \o SubSeq(@, i + 1, Len(@))],
              tasks |-> [ts EXCEPT ![t].pet = None] ]
    ELSE [ pets |-> ps, tasks |-> ts ]

\* update_task with "is not None" as the test for time as well
update_task_time_none_omitted(task, u) ==
    LET a == IF u.description # None THEN [task EXCEPT !.description = u.description[1]]
             ELSE task
        b == IF u.duration # None THEN [a EXCEPT !.duration = u.duration] ELSE a
        c == IF u.priority # None THEN [b EXCEPT !.priority = u.priority[1]] ELSE b
        d == IF u.frequency # None THEN [c EXCEPT !.frequency = u.frequency[1]] ELSE c
        e == IF u.time # None /\ u.time[1] # None THEN [d EXCEPT !.time = u.time[1]] ELSE d
    IN IF u.due_date # None THEN [e EXCEPT !.due_date = u.due_date[1]] ELSE e

\* Task.update_task.  An argument of u is None when it is not supplied and
\* Some(value) when it is; a supplied time or due_date may itself be None.
update_task(task, u) ==
    LET a == IF u.description # None THEN [task EXCEPT !.description = u.description[1]]
             ELSE task
        b == IF u.duration # None THEN [a EXCEPT !.duration = u.duration] ELSE a
        c == IF u.priority # None THEN [b EXCEPT !.priority = u.priority[1]] ELSE b
        d == IF u.frequency # None THEN [c EXCEPT !.frequency = u.frequency[1]] ELSE c
        e == IF u.time # None THEN [d EXCEPT !.time = u.time[1]] ELSE d
    IN IF u.due_date # None THEN [e EXCEPT !.due_date = u.due_date[1]] ELSE e

\* mark_complete adding one day to the due date of a weekly task as well
mark_complete_weekly_as_daily(ps, ts, t, now) ==
    LET completed == [ts EXCEPT ![t] = change_status(@, "completed")]
        self == completed[t]
        current_due_date == IF self.due_date # None THEN self.due_date[1] ELSE now
        next_due_date == current_due_date + 1
        new_task == [ RecurringTask(self.description, self.duration, self.priority,
                                    self.frequency, self.time, Some(next_due_date))
                        EXCEPT !.pet = self.pet ]
        n == Len(ts) + 1
        created == Append(completed, new_task)
        added == IF self.pet # None THEN add_task(ps, created, self.pet[1], n)
                 ELSE [pets |-> ps, tasks |-> created]
    IN IF self.frequency \in {"daily", "weekly"}
       THEN [ pets |-> added.pets, tasks |-> added.tasks, returned |-> Some(n) ]
       ELSE [ pets |-> ps, tasks |-> completed, returned |-> None ]

\* mark_complete moving the due date of the completed task itself forward
mark_complete_advancing_original(ps, ts, t, now) ==
    LET completed == [ts EXCEPT ![t] = change_status(@, "completed")]
        self == completed[t]
        current_due_date == IF self.due_date # None THEN self.due_date[1] ELSE now
        next_due_date == IF self.frequency = "daily" THEN current_due_date + 1
                         ELSE current_due_date + 7
        new_task == [ RecurringTask(self.description, self.duration, self.priority,
                                    self.frequency, self.time, Some(next_due_date))
                        EXCEPT !.pet = self.pet ]
        n == Len(ts) + 1
        created == Append([completed EXCEPT ![t].due_date = Some(next_due_date)], new_task)
        added == IF self.pet # None THEN add_task(ps, created, self.pet[1], n)
                 ELSE [pets |-> ps, tasks |-> created]
    IN IF self.frequency \in {"daily", "weekly"}
       THEN [ pets |-> added.pets, tasks |-> added.tasks, returned |-> Some(n) ]
       ELSE [ pets |-> ps, tasks |-> completed, returned |-> None ]

\* Task.mark_complete on task t, called on day now: the pets and tasks
\* afterwards and the returned task (the new object n), or None.  Due dates
\* are counted in days, so timedelta(days=1) is 1 and timedelta(weeks=1) is 7.
mark_complete(ps, ts, t, now) ==
    LET completed == [ts EXCEPT ![t] = change_status(@, "completed")]
        self == completed[t]
        current_due_date == IF self.due_date # None THEN self.due_date[1] ELSE now
        next_due_date == IF self.frequency = "daily" THEN current_due_date + 1
                         ELSE current_due_date + 7
        new_task == [ RecurringTask(self.description, self.duration, self.priority,
                                    self.frequency, self.time, Some(next_due_date))
                        EXCEPT !.pet = self.pet ]
        n == Len(ts) + 1
        created == Append(completed, new_task)
        added == IF self.pet # None THEN add_task(ps, created, self.pet[1], n)
                 ELSE [pets |-> ps, tasks |-> created]
    IN IF self.frequency \in {"daily", "weekly"}
       THEN [ pets |-> added.pets, tasks |-> added.tasks, returned |-> Some(n) ]
       ELSE [ pets |-> ps, tasks |-> completed, returned |-> None ]

\* the tasks held by the pets of the owner
OwnerTasks(own, ps) ==
    UNION {{ps[own.pets[i]].tasks[k] : k \in 1..Len(ps[own.pets[i]].tasks)} :
             i \in 1..Len(own.pets)}

\* the loop of "Clear Schedule" resetting the scheduled tasks only
clear_schedule_scheduled_only(own, ps, ts) ==
    [t \in 1..Len(ts) |->
        IF t \in OwnerTasks(own, ps) /\ ts[t].status = "scheduled"
        THEN change_status(ts[t], "pending") ELSE ts[t]]

\* the loop of "Clear Schedule" going through the first pet only
clear_schedule_first_pet_only(own, ps, ts) ==
    [t \in 1..Len(ts) |->
        IF /\ own.pets # <<>>
           /\ \E k \in 1..Len(ps[own.pets[1]].tasks) : ps[own.pets[1]].tasks[k] = t
        THEN change_status(ts[t], "pending") ELSE ts[t]]

\* the loop of "Clear Schedule": task.change_status("pending") for every task
\* of every pet of the owner
clear_schedule(own, ps, ts) ==
    [t \in 1..Len(ts) |->
        IF t \in OwnerTasks(own, ps) THEN change_status(ts[t], "pending") ELSE ts[t]]

\* no Task method has been called, or the latest call was of another kind
NoCall == [returned |-> None, raised |-> None]

\* Owner(name="Sam"): no pets, the default preferences and minutes
SecondOwner ==
    [ name |-> Some("Sam"), preferences |-> None, pets |-> <<>>,
      available_time_minutes |-> 480 ]

\* "pet in self.pets": list membership is by identity or by dataclass equality
PetIn(p, list, ps) == \E i \in 1..Len(list) : list[i] = p \/ ps[list[i]] = ps[p]

\* Owner.add_pet on owner o of os and pet p: the owners and pets afterwards
add_pet(os, ps, o, p) ==
    IF ~PetIn(p, os[o].pets, ps)
    THEN [ owners |-> [os EXCEPT ![o].pets = Append(@, p)],
           pets |-> [ps EXCEPT ![p].owner = Some(o)] ]
    ELSE [ owners |-> os, pets |-> ps ]

\* the index of the element list.remove(pet) removes
RECURSIVE FirstEqualPet(_, _, _, _)
FirstEqualPet(p, list, ps, i) ==
    IF list[i] = p \/ ps[list[i]] = ps[p] THEN i ELSE FirstEqualPet(p, list, ps, i + 1)

\* Owner.remove_pet on owner o of os and pet p: the owners and pets afterwards
remove_pet(os, ps, o, p) ==
    IF PetIn(p, os[o].pets, ps)
    THEN LET i == FirstEqualPet(p, os[o].pets, ps, 1)
         IN [ owners |-> [os EXCEPT ![o].pets =
                              SubSeq(@, 1, i - 1) \o SubSeq(@, i + 1, Len(@))],
              pets |-> [ps EXCEPT ![p].owner = None] ]
    ELSE [ owners |-> os, pets |-> ps ]

Init ==
    /\ \E available \in AvailableTimes, preferences \in PreferenceInputs :
          owner = [ name |-> Some("Alex"), preferences |-> preferences,
                    pets |-> <<1, 2>>, available_time_minutes |-> available ]
    /\ pets = [p \in 1..Len(PetNames) |-> [name |-> PetNames[p], owner |-> Some(1), tasks |-> <<>>]]
    /\ tasks = <<>>
    /\ pc = "idle"
    /\ all_tasks = <<>>
    /\ fixed_time_tasks = <<>>
    /\ flexible_tasks = <<>>
    /\ sorted_flexible_tasks = <<>>
    /\ idx = 0
    /\ scheduled_tasks = <<>>
    /\ skipped_tasks = <<>>
    /\ remaining_time_minutes = 0
    /\ total_time_used = 0
    /\ occupied_intervals = <<>>
    /\ result = None
    /\ call = NoCall
    /\ other_owner = SecondOwner

(***************************************************************************)
(* Operations.                                                             *)
(***************************************************************************)
\* The user enters a task for pet p: Task(...) followed by pet.add_task(task).
\* Tasks are entered pet by pet, which reaches every content of the lists.
AddTask(p, input) ==
    /\ pc = "idle"
    /\ Len(tasks) < MaxTasks
    /\ \A q \in 1..Len(pets) : q > p => pets[q].tasks = <<>>
    /\ LET t == Len(tasks) + 1
           created == Append(tasks, Task(input.description, input.duration,
                                         input.priority, input.time))
           added == add_task(pets, created, p, t)
       IN /\ pets' = added.pets
          /\ tasks' = added.tasks
    /\ UNCHANGED <<owner, other_owner, pc, locals, result, call>>

\* Scheduler(owner=None).generate_schedule()
GenerateNoOwner ==
    /\ pc = "idle"
    /\ result' = EarlyExit("No owner specified for scheduling.")
    /\ pc' = "no-owner"
    /\ UNCHANGED <<owner, other_owner, call, pets, tasks, locals>>

\* Scheduler(owner).generate_schedule() when no pet has a pending task
GenerateNoPending ==
    /\ pc = "idle"
    /\ GatherPending(owner, pets, tasks) = <<>>
    /\ all_tasks' = <<>>
    /\ result' = EarlyExit("No pending tasks to schedule.")
    /\ pc' = "no-pending-tasks"
    /\ UNCHANGED <<owner, other_owner, call, pets, tasks, fixed_time_tasks, flexible_tasks,
                   sorted_flexible_tasks, idx, scheduled_tasks, skipped_tasks,
                   remaining_time_minutes, total_time_used, occupied_intervals>>

\* Scheduler(owner).generate_schedule() up to the first loop
GenerateBegin ==
    /\ pc = "idle"
    /\ LET gathered == GatherPending(owner, pets, tasks)
           P == InitialPass(owner, tasks)
       IN /\ gathered # <<>>
          /\ all_tasks' = gathered
          /\ scheduled_tasks' = P.scheduled_tasks
          /\ skipped_tasks' = P.skipped_tasks
          /\ remaining_time_minutes' = P.remaining_time_minutes
          /\ total_time_used' = P.total_time_used
          /\ occupied_intervals' = P.occupied_intervals
          /\ fixed_time_tasks' = SortFixed(SelectSeq(gathered, LAMBDA t : tasks[t].time # None), tasks)
          /\ flexible_tasks' = SelectSeq(gathered, LAMBDA t : tasks[t].time = None)
    /\ idx' = 1
    /\ pc' = "placing-fixed"
    /\ UNCHANGED <<owner, other_owner, call, pets, tasks, sorted_flexible_tasks, result>>

\* the pass's state as the record the iterations work on
Pass ==
    [ tasks |-> tasks, scheduled_tasks |-> scheduled_tasks, skipped_tasks |-> skipped_tasks,
      remaining_time_minutes |-> remaining_time_minutes,
      total_time_used |-> total_time_used, occupied_intervals |-> occupied_intervals ]

SetPass(P) ==
    /\ tasks' = P.tasks
    /\ scheduled_tasks' = P.scheduled_tasks
    /\ skipped_tasks' = P.skipped_tasks
    /\ remaining_time_minutes' = P.remaining_time_minutes
    /\ total_time_used' = P.total_time_used
    /\ occupied_intervals' = P.occupied_intervals

\* one iteration of the fixed-time loop
PlaceFixed ==
    /\ pc = "placing-fixed"
    /\ idx <= Len(fixed_time_tasks)
    /\ SetPass(FixedIteration(Pass, pets, fixed_time_tasks[idx]))
    /\ idx' = idx + 1
    /\ UNCHANGED <<owner, other_owner, call, pets, pc, all_tasks, fixed_time_tasks, flexible_tasks,
                   sorted_flexible_tasks, result>>

\* the fixed-time loop ends; the flexible tasks are sorted
FixedDone ==
    /\ pc = "placing-fixed"
    /\ idx > Len(fixed_time_tasks)
    /\ sorted_flexible_tasks' = _sort_tasks_by_priority(flexible_tasks, tasks)
    /\ idx' = 1
    /\ pc' = "placing-flexible"
    /\ UNCHANGED <<owner, other_owner, call, pets, tasks, all_tasks, fixed_time_tasks, flexible_tasks,
                   scheduled_tasks, skipped_tasks, remaining_time_minutes,
                   total_time_used, occupied_intervals, result>>

\* one iteration of the flexible loop
PlaceFlexible ==
    /\ pc = "placing-flexible"
    /\ idx <= Len(sorted_flexible_tasks)
    /\ SetPass(FlexibleIteration(Pass, owner, pets, sorted_flexible_tasks[idx]))
    /\ idx' = idx + 1
    /\ UNCHANGED <<owner, other_owner, call, pets, pc, all_tasks, fixed_time_tasks, flexible_tasks,
                   sorted_flexible_tasks, result>>

\* the flexible loop ends: final sort, explanation, return
GenerateFinish ==
    /\ pc = "placing-flexible"
    /\ idx > Len(sorted_flexible_tasks)
    /\ result' = ScheduleResult(owner, scheduled_tasks, skipped_tasks, total_time_used)
    /\ scheduled_tasks' = result'.scheduled_tasks
    /\ pc' = "done"
    /\ UNCHANGED <<owner, other_owner, call, pets, tasks, all_tasks, fixed_time_tasks, flexible_tasks,
                   sorted_flexible_tasks, idx, skipped_tasks, remaining_time_minutes,
                   total_time_used, occupied_intervals>>

Next ==
    \/ \E p \in 1..Len(PetNames), input \in TaskInputs : AddTask(p, input)
    \/ GenerateNoOwner
    \/ GenerateNoPending
    \/ GenerateBegin
    \/ PlaceFixed
    \/ FixedDone
    \/ PlaceFlexible
    \/ GenerateFinish

Spec == Init /\ [][Next]_vars

TypeOK ==
    /\ pc \in {"idle", "no-owner", "no-pending-tasks", "placing-fixed", "placing-flexible", "done"}
    /\ \A t \in 1..Len(tasks) : tasks[t].status \in Statuses
    /\ Len(tasks) <= MaxTasks

(***************************************************************************)
(* Properties of the generation pass.                                      *)
(***************************************************************************)
Returned == pc \in {"done", "no-owner", "no-pending-tasks"}

ResultEntries == 1..Len(result.scheduled_tasks)

EntryIsFixed(e) == tasks[e.task].time # None

EntriesOverlap(a, b) ==
    a.start_time_minutes < b.end_time_minutes /\ b.start_time_minutes < a.end_time_minutes

RECURSIVE SumDurations(_)
SumDurations(entries) ==
    IF entries = <<>> THEN 0
    ELSE tasks[Head(entries).task].duration[1] + SumDurations(Tail(entries))

\* C1: in every returned schedule the interval of a scheduled flexible task
\* overlaps the interval of no other scheduled task; only two fixed-time
\* tasks can overlap.
C1_FlexibleSlotsDisjoint ==
    Returned =>
        \A i, j \in ResultEntries :
            (i # j /\ ~EntryIsFixed(result.scheduled_tasks[i]))
                => ~EntriesOverlap(result.scheduled_tasks[i], result.scheduled_tasks[j])

\* a flexible task placed directly behind one of two overlapping fixed tasks
C1_Witness ==
    /\ pc = "done"
    /\ \E i, j, k \in ResultEntries :
          /\ j # k
          /\ ~EntryIsFixed(result.scheduled_tasks[i])
          /\ EntryIsFixed(result.scheduled_tasks[j])
          /\ EntryIsFixed(result.scheduled_tasks[k])
          /\ EntriesOverlap(result.scheduled_tasks[j], result.scheduled_tasks[k])
          /\ result.scheduled_tasks[i].start_time_minutes
                = result.scheduled_tasks[j].end_time_minutes

\* C2: every scheduled fixed-time task starts at hours*60+minutes of its
\* declared time and ends at that start plus its duration.
C2_FixedTimeHonoured ==
    Returned =>
        \A i \in ResultEntries :
            LET e == result.scheduled_tasks[i]
                task == tasks[e.task]
            IN EntryIsFixed(e) =>
                  /\ e.start_time_minutes = task.time[1] * 60 + task.time[2]
                  /\ e.end_time_minutes = e.start_time_minutes + task.duration[1]

\* a task fixed at 12:00 scheduled at minute 720 while a flexible task and
\* another fixed task are scheduled too
C2_Witness ==
    /\ pc = "done"
    /\ \E i, j, k \in ResultEntries :
          /\ j # k
          /\ tasks[result.scheduled_tasks[i].task].time = <<12, 0>>
          /\ result.scheduled_tasks[i].start_time_minutes = 720
          /\ ~EntryIsFixed(result.scheduled_tasks[j])
          /\ EntryIsFixed(result.scheduled_tasks[k])
          /\ i # k

\* C3: a fixed-time task with valid duration is skipped only for budget
\* (needed minutes above the remaining minutes), never for overlapping, and
\* detect_conflicts over the scheduled tasks has a record for every pair of
\* overlapping scheduled fixed-time tasks.
C3_FixedOverlapKeptAndReported ==
    /\ \A i \in 1..Len(skipped_tasks) :
          LET s == skipped_tasks[i]
              task == tasks[s.task]
          IN (task.time # None /\ task.duration # None /\ task.duration[1] > 0)
                => /\ s.reason.text = "Insufficient total available time"
                   /\ s.reason.args[2] = task.duration[1]
                   /\ s.reason.args[2] > s.reason.args[1]
    /\ Returned =>
          LET conflicts == detect_conflicts(
                  [i \in ResultEntries |-> result.scheduled_tasks[i].task], pets, tasks)
          IN \A i, j \in ResultEntries :
                LET a == result.scheduled_tasks[i]
                    b == result.scheduled_tasks[j]
                IN (i < j /\ EntryIsFixed(a) /\ EntryIsFixed(b) /\ EntriesOverlap(a, b))
                      => \E k \in 1..Len(conflicts) :
                            {conflicts[k].task1, conflicts[k].task2} = {a.task, b.task}

\* two overlapping fixed-time tasks are both scheduled
C3_Witness ==
    /\ pc = "done"
    /\ \E i, j \in ResultEntries :
          /\ i < j
          /\ EntryIsFixed(result.scheduled_tasks[i])
          /\ EntryIsFixed(result.scheduled_tasks[j])
          /\ EntriesOverlap(result.scheduled_tasks[i], result.scheduled_tasks[j])

\* C4: with available_time_minutes >= 0 the remaining budget is, at every
\* step of a pass, the available minutes less the minutes placed so far and
\* is never negative; total_time_used never exceeds the available minutes.
C4_BudgetNeverOverdrawn ==
    owner.available_time_minutes >= 0 =>
        /\ pc \in {"placing-fixed", "placing-flexible", "done"} =>
              /\ remaining_time_minutes
                    = owner.available_time_minutes - SumDurations(scheduled_tasks)
              /\ remaining_time_minutes >= 0
        /\ pc = "done" => result.total_time_used <= owner.available_time_minutes

\* a pass that used its budget up to the last minute and skipped a task for it
C4_Witness ==
    /\ pc = "done"
    /\ owner.available_time_minutes > 0
    /\ result.total_time_used = owner.available_time_minutes
    /\ \E i \in 1..Len(result.skipped_tasks) :
          /\ result.skipped_tasks[i].reason.text = "Insufficient total available time"
          /\ tasks[result.skipped_tasks[i].task].time = None

Range(list) == {list[i] : i \in 1..Len(list)}

\* the tasks as they were when the running or returned pass gathered them
TasksAtCall ==
    [t \in 1..Len(tasks) |->
        IF t \in Range(all_tasks) THEN [tasks[t] EXCEPT !.status = "pending"] ELSE tasks[t]]

\* the dictionary returned from the same initial state by an owner with b minutes
ResultWithBudget(b) ==
    generate_schedule([owner EXCEPT !.available_time_minutes = b], pets, TasksAtCall).result

ScheduledIn(res) == {res.scheduled_tasks[i].task : i \in 1..Len(res.scheduled_tasks)}

SkippedIn(res) == {res.skipped_tasks[i].task : i \in 1..Len(res.skipped_tasks)}

BudgetSkipIn(res) ==
    \E i \in 1..Len(res.skipped_tasks) :
        res.skipped_tasks[i].reason.text = "Insufficient total available time"

ConsideringFixed == pc = "placing-fixed" /\ idx <= Len(fixed_time_tasks)

ConsideringFlexible == pc = "placing-flexible" /\ idx <= Len(sorted_flexible_tasks)

\* the task the next iteration is about
CurrentTask == IF pc = "placing-fixed" THEN fixed_time_tasks[idx] ELSE sorted_flexible_tasks[idx]

ValidDuration(t) == tasks[t].duration # None /\ tasks[t].duration[1] > 0

\* [s, s + d) lies in the day and meets no occupied interval
FreeAt(s, d, intervals) ==
    /\ 0 <= s
    /\ s + d <= day_end_time
    /\ \A i \in 1..Len(intervals) : ~(intervals[i][1] < s + d /\ s < intervals[i][2])

\* the minutes of the day that no occupied interval covers
FreeMinutesOfDay(intervals) ==
    Cardinality({m \in 0..(day_end_time - 1) :
                    \A i \in 1..Len(intervals) : ~(intervals[i][1] <= m /\ m < intervals[i][2])})

\* the flexible task handled last was skipped for lack of a slot
JustSkippedForNoSlot ==
    /\ pc = "placing-flexible"
    /\ idx > 1
    /\ skipped_tasks # <<>>
    /\ skipped_tasks[Len(skipped_tasks)].task = sorted_flexible_tasks[idx - 1]
    /\ skipped_tasks[Len(skipped_tasks)].reason.text = "Insufficient time remaining"

\* C6: a flexible task within budget is skipped for lack of a slot only if
\* no free stretch of its duration exists anywhere in [0, 1440); where one
\* exists the task is scheduled.
C6_FullDayFallback ==
    JustSkippedForNoSlot =>
        LET d == tasks[sorted_flexible_tasks[idx - 1]].duration[1]
        IN ~ \E s \in 0..(day_end_time - d) : FreeAt(s, d, occupied_intervals)

\* C7: in both loops a task with valid duration above the remaining budget
\* is appended to skipped_tasks with a reason naming the remaining and the
\* needed minutes, becomes skipped, uses no budget and occupies no interval.
C7_BudgetSkip ==
    [][ ( /\ ConsideringFixed \/ ConsideringFlexible
          /\ ValidDuration(CurrentTask)
          /\ tasks[CurrentTask].duration[1] > remaining_time_minutes )
        => /\ skipped_tasks' =
                 Append(skipped_tasks,
                        [ task |-> CurrentTask,
                          reason |-> [ text |-> "Insufficient total available time",
                                       args |-> <<remaining_time_minutes,
                                                  tasks[CurrentTask].duration[1]>> ] ])
           /\ tasks'[CurrentTask].status = "skipped"
           /\ scheduled_tasks' = scheduled_tasks
           /\ remaining_time_minutes' = remaining_time_minutes
           /\ total_time_used' = total_time_used
           /\ occupied_intervals' = occupied_intervals ]_vars

\* after a task was placed, a fixed-time and a flexible task were skipped for budget
C7_Witness ==
    /\ pc = "done"
    /\ scheduled_tasks # <<>>
    /\ \E i, j \in 1..Len(skipped_tasks) :
          /\ skipped_tasks[i].reason.text = "Insufficient total available time"
          /\ skipped_tasks[j].reason.text = "Insufficient total available time"
          /\ tasks[skipped_tasks[i].task].time # None
          /\ tasks[skipped_tasks[j].task].time = None
          /\ skipped_tasks[i].reason.args[1] < owner.available_time_minutes
          /\ tasks[skipped_tasks[i].task].status = "skipped"
          /\ tasks[skipped_tasks[j].task].status = "skipped"

\* C8: a flexible task within budget for which both searches find no slot
\* is appended to skipped_tasks with a reason citing the free minutes of
\* the day, and becomes skipped.
C8_NoSlotSkip ==
    [][ ( /\ ConsideringFlexible
          /\ ValidDuration(CurrentTask)
          /\ tasks[CurrentTask].duration[1] <= remaining_time_minutes
          /\ _find_available_slot(tasks[CurrentTask].duration[1], occupied_intervals,
                                  _get_start_time(owner), day_end_time) = None
          /\ _find_available_slot(tasks[CurrentTask].duration[1], occupied_intervals,
                                  0, _get_start_time(owner)) = None )
        => /\ skipped_tasks' =
                 Append(skipped_tasks,
                        [ task |-> CurrentTask,
                          reason |-> [ text |-> "Insufficient time remaining",
                                       args |-> <<FreeMinutesOfDay(occupied_intervals),
                                                  tasks[CurrentTask].duration[1]>> ] ])
           /\ tasks'[CurrentTask].status = "skipped" ]_vars

\* C9: in both loops a task without valid duration is appended to
\* skipped_tasks with the fixed reason; it is not scheduled, uses no budget,
\* occupies no interval, keeps its status pending, and the loop goes on.
C9_InvalidDurationSkip ==
    [][ ( /\ ConsideringFixed \/ ConsideringFlexible
          /\ ~ValidDuration(CurrentTask) )
        => /\ skipped_tasks' =
                 Append(skipped_tasks,
                        [ task |-> CurrentTask,
                          reason |-> [ text |-> "Task has no valid duration specified",
                                       args |-> <<>> ] ])
           /\ tasks[CurrentTask].status = "pending"
           /\ tasks' = tasks
           /\ scheduled_tasks' = scheduled_tasks
           /\ remaining_time_minutes' = remaining_time_minutes
           /\ total_time_used' = total_time_used
           /\ occupied_intervals' = occupied_intervals
           /\ idx' = idx + 1
           /\ pc' = pc ]_vars

\* a pass that skipped a fixed-time task without duration and a flexible task
\* of duration 0, scheduled a third task, and left the two pending
C9_Witness ==
    /\ pc = "done"
    /\ scheduled_tasks # <<>>
    /\ \E i, j \in 1..Len(skipped_tasks) :
          /\ skipped_tasks[i].reason.text = "Task has no valid duration specified"
          /\ skipped_tasks[j].reason.text = "Task has no valid duration specified"
          /\ tasks[skipped_tasks[i].task].time # None
          /\ tasks[skipped_tasks[i].task].duration = None
          /\ tasks[skipped_tasks[j].task].time = None
          /\ tasks[skipped_tasks[j].task].duration = Some(0)
          /\ tasks[skipped_tasks[i].task].status = "pending"
          /\ tasks[skipped_tasks[j].task].status = "pending"

\* how often task t is the task of an entry of the list
Occurrences(t, entries) == Cardinality({i \in 1..Len(entries) : entries[i].task = t})

\* each task is in the list of at most one of the owner's pets, once
EachTaskInOnePet ==
    \A t \in 1..Len(tasks) :
        Cardinality({<<i, k>> \in (1..Len(owner.pets)) \X (1..MaxTasks) :
                        /\ k <= Len(pets[owner.pets[i]].tasks)
                        /\ pets[owner.pets[i]].tasks[k] = t}) <= 1

\* C10: for an owner whose tasks each belong to one pet, every iteration of a
\* pass puts the task it considers into one of the two lists, and when the
\* pass returns every pending task it gathered is in exactly one of
\* scheduled_tasks and skipped_tasks, exactly once.
C10_EveryTaskAccountedOnce ==
    EachTaskInOnePet =>
        /\ pc = "placing-fixed"
              => Len(scheduled_tasks) + Len(skipped_tasks) = idx - 1
        /\ pc = "placing-flexible"
              => Len(scheduled_tasks) + Len(skipped_tasks) = Len(fixed_time_tasks) + idx - 1
        /\ pc = "done"
              => /\ all_tasks = GatherPending(owner, pets, TasksAtCall)
                 /\ \A t \in Range(all_tasks) :
                       Occurrences(t, result.scheduled_tasks)
                          + Occurrences(t, result.skipped_tasks) = 1
                 /\ ScheduledIn(result) \cup SkippedIn(result) = Range(all_tasks)

\* a returned pass over the tasks of two pets with scheduled and skipped tasks
C10_Witness ==
    /\ pc = "done"
    /\ Len(all_tasks) = MaxTasks
    /\ pets[1].tasks # <<>>
    /\ pets[2].tasks # <<>>
    /\ result.scheduled_tasks # <<>>
    /\ Len(result.skipped_tasks) >= 2

(***************************************************************************)
(* The order of the returned list and the independence of the fixed pass.  *)
(***************************************************************************)
\* C11: in every dictionary generate_schedule returns, scheduled_tasks is in
\* ascending order of start_time_minutes, fixed-time and flexible entries
\* interleaved, whatever the order in which the two loops placed them.
C11_ResultOrderedByStart ==
    Returned =>
        \A i, j \in 1..Len(result.scheduled_tasks) :
            i < j => result.scheduled_tasks[i].start_time_minutes
                        <= result.scheduled_tasks[j].start_time_minutes

\* a returned list in which a flexible entry, placed by the second loop,
\* stands before a fixed-time entry placed by the first loop
C11_Witness ==
    /\ pc = "done"
    /\ \E i, j \in 1..Len(result.scheduled_tasks) :
          /\ i < j
          /\ ~EntryIsFixed(result.scheduled_tasks[i])
          /\ EntryIsFixed(result.scheduled_tasks[j])
          /\ result.scheduled_tasks[i].start_time_minutes
                < result.scheduled_tasks[j].start_time_minutes

\* the pets holding their fixed-time tasks only
WithoutFlexible(ps) ==
    [p \in DOMAIN ps |->
        [ps[p] EXCEPT !.tasks = SelectSeq(@, LAMBDA t : tasks[t].time # None)]]

\* what a returned dictionary says of the fixed-time tasks: their entries of
\* scheduled_tasks (with the start and end minutes) and of skipped_tasks
FixedOutcome(res) ==
    [ scheduled |-> SelectSeq(res.scheduled_tasks, LAMBDA e : tasks[e.task].time # None),
      skipped |-> SelectSeq(res.skipped_tasks, LAMBDA e : tasks[e.task].time # None) ]

\* the dictionary returned from the same initial state by an owner with
\* the preferred time window pref, for the pets ps
ResultWithPreference(pref, ps) ==
    generate_schedule([owner EXCEPT !.preferences = pref], ps, TasksAtCall).result

\* C12: the outcome of every fixed-time task (scheduled or skipped, with its
\* start and end minutes) is the same for every preferred time window of the
\* owner and for every set of flexible tasks: it equals the outcome of the
\* pass over the fixed-time tasks alone, under every preference.
C12_FixedOutcomeIndependent ==
    pc = "done" =>
        \A pref \in PreferenceInputs :
            /\ FixedOutcome(ResultWithPreference(pref, pets)) = FixedOutcome(result)
            /\ FixedOutcome(ResultWithPreference(pref, WithoutFlexible(pets)))
                  = FixedOutcome(result)

\* a returned pass with a scheduled and a skipped fixed-time task and with
\* flexible tasks whose placement another preference changes
C12_Witness ==
    /\ pc = "done"
    /\ FixedOutcome(result).scheduled # <<>>
    /\ FixedOutcome(result).skipped # <<>>
    /\ \E t \in Range(all_tasks) : tasks[t].time = None
    /\ \E pref \in PreferenceInputs :
          ResultWithPreference(pref, pets).scheduled_tasks # result.scheduled_tasks

(***************************************************************************)
(* The life of the tasks: the Task methods, whole generation passes and    *)
(* "Clear Schedule", called in any order between passes.  result and call  *)
(* describe the latest call only.                                          *)
(***************************************************************************)
Today == 10

\* the tasks that are created, and for which pet: a recurring task is given
\* a due date
LifeInputs ==
    { [pet |-> 1, description |-> "Feed", time |-> None, duration |-> Some(30),
       priority |-> HIGH, frequency |-> "daily", due_date |-> Some(Today)],
      [pet |-> 2, description |-> "Meds", time |-> <<8, 0>>, duration |-> Some(30),
       priority |-> MEDIUM, frequency |-> "weekly", due_date |-> Some(Today)],
      [pet |-> 1, description |-> "Vet", time |-> None, duration |-> None,
       priority |-> LOW, frequency |-> "once", due_date |-> None] }

\* the owner of these runs has half an hour
LifeAvailableTime == 30

\* the values handed to change_status
StatusInputs == Statuses \cup {"done"}

\* update_task(time=None)
UpdateInputs ==
    { [description |-> None, duration |-> None, priority |-> None,
       frequency |-> None, time |-> Some(None), due_date |-> None] }

\* the day on which mark_complete reads datetime.now()
NowInputs == {Today}

pass_locals == <<fixed_time_tasks, flexible_tasks, sorted_flexible_tasks, idx,
                 scheduled_tasks, skipped_tasks, remaining_time_minutes,
                 total_time_used, occupied_intervals>>

\* no generation pass is running
AtRest == pc \in {"idle", "done", "no-pending-tasks"}

LifeInit ==
    /\ owner = [ name |-> Some("Alex"), preferences |-> None, pets |-> <<1, 2>>,
                 available_time_minutes |-> LifeAvailableTime ]
    /\ pets = [p \in 1..Len(PetNames) |-> [name |-> PetNames[p], owner |-> Some(1), tasks |-> <<>>]]
    /\ tasks = <<>>
    /\ pc = "idle"
    /\ all_tasks = <<>>
    /\ fixed_time_tasks = <<>>
    /\ flexible_tasks = <<>>
    /\ sorted_flexible_tasks = <<>>
    /\ idx = 0
    /\ scheduled_tasks = <<>>
    /\ skipped_tasks = <<>>
    /\ remaining_time_minutes = 0
    /\ total_time_used = 0
    /\ occupied_intervals = <<>>
    /\ result = None
    /\ call = NoCall
    /\ other_owner = SecondOwner

\* a call that is not a generation pass leaves no returned dictionary
NotGenerating ==
    /\ pc' = "idle"
    /\ all_tasks' = <<>>
    /\ result' = None
    /\ UNCHANGED <<owner, other_owner, pass_locals>>

\* Task(..., frequency=..., due_date=...) followed by pet.add_task(task)
EnterTask(input) ==
    /\ AtRest
    /\ Len(tasks) < MaxTasks
    /\ LET t == Len(tasks) + 1
           created == Append(tasks, RecurringTask(input.description, input.duration,
                                                  input.priority, input.frequency,
                                                  input.time, input.due_date))
           added == add_task(pets, created, input.pet, t)
       IN /\ pets' = added.pets
          /\ tasks' = added.tasks
    /\ call' = NoCall
    /\ NotGenerating

\* task.change_status(new_status)
ChangeStatus(t, new_status) ==
    /\ AtRest
    /\ t \in 1..Len(tasks)
    /\ tasks' = [tasks EXCEPT ![t] = change_status(@, new_status)]
    /\ call' = [returned |-> None, raised |-> change_status_error(new_status)]
    /\ pets' = pets
    /\ NotGenerating

\* task.update_task(...)
UpdateTask(t, u) ==
    /\ AtRest
    /\ t \in 1..Len(tasks)
    /\ tasks' = [tasks EXCEPT ![t] = update_task(@, u)]
    /\ call' = NoCall
    /\ pets' = pets
    /\ NotGenerating

\* task.mark_complete() on day now; a recurring task needs room for its
\* successor among at most limit task objects
MarkCompleteWithin(limit, t, now) ==
    /\ AtRest
    /\ t \in 1..Len(tasks)
    /\ tasks[t].frequency \in {"daily", "weekly"} => Len(tasks) < limit
    /\ LET m == mark_complete(pets, tasks, t, now)
       IN /\ pets' = m.pets
          /\ tasks' = m.tasks
          /\ call' = [returned |-> m.returned, raised |-> None]
    /\ NotGenerating

MarkComplete(t, now) == MarkCompleteWithin(MaxTasks, t, now)

\* Scheduler(owner).generate_schedule(), the whole call
Generate ==
    /\ AtRest
    /\ LET gathered == GatherPending(owner, pets, tasks)
           g == generate_schedule(owner, pets, tasks)
       IN /\ all_tasks' = gathered
          /\ tasks' = g.tasks
          /\ result' = g.result
          /\ pc' = IF gathered = <<>> THEN "no-pending-tasks" ELSE "done"
    /\ call' = NoCall
    /\ UNCHANGED <<owner, other_owner, pets, pass_locals>>

\* the "Clear Schedule" button
ClearSchedule ==
    /\ AtRest
    /\ tasks' = clear_schedule(owner, pets, tasks)
    /\ call' = NoCall
    /\ pets' = pets
    /\ NotGenerating

LifeNext ==
    \/ \E input \in LifeInputs : EnterTask(input)
    \/ \E t \in 1..MaxTasks, new_status \in StatusInputs : ChangeStatus(t, new_status)
    \/ \E t \in 1..MaxTasks, u \in UpdateInputs : UpdateTask(t, u)
    \/ \E t \in 1..MaxTasks, now \in NowInputs : MarkComplete(t, now)
    \/ Generate
    \/ ClearSchedule

LifeSpec == LifeInit /\ [][LifeNext]_vars

(***************************************************************************)
(* Properties of the life of the tasks.                                    *)
(***************************************************************************)
\* the dictionary a second call returns after "Clear Schedule"
ResultAfterClear ==
    generate_schedule(owner, pets, clear_schedule(owner, pets, tasks)).result

SameSchedule(first, second) ==
    /\ second.scheduled_tasks = first.scheduled_tasks
    /\ second.skipped_tasks = first.skipped_tasks
    /\ second.total_time_used = first.total_time_used

\* C13 as claimed: after generate_schedule has returned, resetting the status
\* of every task to pending and running generate_schedule again gives the
\* same scheduled entries, the same skipped entries and the same
\* total_time_used.
C13_RegenerationIdempotent ==
    pc \in {"done", "no-pending-tasks"} => SameSchedule(result, ResultAfterClear)

\* C13 amended: when every task of the owner's pets was pending at the first
\* call, resetting the status of every task to pending and running
\* generate_schedule again gives the same scheduled entries, the same skipped
\* entries and the same total_time_used.
C13_RegenerationIdempotentFromPending ==
    (pc \in {"done", "no-pending-tasks"} /\ Range(all_tasks) = OwnerTasks(owner, pets))
        => SameSchedule(result, ResultAfterClear)

\* a returned pass over tasks that were all pending, which scheduled one and
\* skipped another for the budget, so that the reset changes statuses
C13_Witness ==
    /\ pc = "done"
    /\ Range(all_tasks) = OwnerTasks(owner, pets)
    /\ \E t \in ScheduledIn(result) : tasks[t].status = "scheduled"
    /\ \E t \in SkippedIn(result) : tasks[t].status = "skipped"
    /\ \E t \in SkippedIn(result) : tasks[t].status = "pending"

\* C14: a second call of generate_schedule made without resetting statuses
\* gathers only the tasks that are pending: every task that is scheduled,
\* skipped or completed is in neither list of the second result and keeps
\* its status.
C14_SecondCallGathersPendingOnly ==
    pc \in {"done", "no-pending-tasks"} =>
        LET second == generate_schedule(owner, pets, tasks)
        IN \A t \in 1..Len(tasks) :
              tasks[t].status \in {"scheduled", "skipped", "completed"} =>
                  /\ t \notin ScheduledIn(second.result)
                  /\ t \notin SkippedIn(second.result)
                  /\ second.tasks[t].status = tasks[t].status

\* the state a second call returned to: a scheduled and a completed task of
\* the owner's pets that the call did not gather, and a task it did
C14_Witness ==
    /\ pc = "done"
    /\ \E t \in OwnerTasks(owner, pets) \ Range(all_tasks) : tasks[t].status = "scheduled"
    /\ \E t \in OwnerTasks(owner, pets) \ Range(all_tasks) : tasks[t].status = "completed"
    /\ all_tasks # <<>>

\* C15: from any current status, change_status(s) sets the status to s, and
\* nothing else, when s is pending, scheduled, completed or skipped; for any
\* other value it raises an error naming the value and leaves the task as it
\* was.
C15_ChangeStatus ==
    /\ \A t \in 1..Len(tasks), s \in StatusInputs :
          IF s \in Statuses
          THEN /\ change_status(tasks[t], s) = [tasks[t] EXCEPT !.status = s]
               /\ change_status_error(s) = None
          ELSE /\ change_status(tasks[t], s) = tasks[t]
               /\ change_status_error(s) # None
               /\ change_status_error(s)[1].type = "ValueError"
               /\ change_status_error(s)[1].value = s
    /\ call.raised # None => call.raised[1].value \notin Statuses

\* a failed call has just returned, and tasks are in three different statuses
C15_Witness ==
    /\ call.raised # None
    /\ call.raised[1].value = "done"
    /\ Cardinality({tasks[t].status : t \in 1..Len(tasks)}) = 3

\* C16: after any sequence of change_status (failed calls included),
\* update_task, mark_complete, generate_schedule and clear-schedule
\* operations, the status of every task is pending, scheduled, completed or
\* skipped.
C16_StatusAlwaysValid ==
    \A t \in 1..Len(tasks) : tasks[t].status \in Statuses

\* a failed change_status call has returned while a task cleared by
\* update_task is scheduled and the successor of a completed task exists
C16_Witness ==
    /\ call.raised # None
    /\ \E t \in 1..Len(tasks) :
          /\ tasks[t].description = "Meds"
          /\ tasks[t].time = None
          /\ tasks[t].status = "scheduled"
    /\ \E t \in 1..Len(tasks) :
          /\ tasks[t].status = "completed"
          /\ tasks[t].frequency = "daily"
    /\ \E t \in 1..Len(tasks) : tasks[t].due_date = Some(Today + 1)

\* the calls of mark_complete the runs make: a recurring task needs room for
\* its successor
MayMarkComplete(t) == tasks[t].frequency \in {"daily", "weekly"} => Len(tasks) < MaxTasks

\* C17: mark_complete on a daily (weekly) task with due date D returns a new
\* task, distinct from the original, with status pending, due date D + 1 day
\* (D + 7 days) and the description, duration, priority, frequency, time and
\* pet of the original.
C17_SuccessorFields ==
    \A t \in 1..Len(tasks), now \in NowInputs :
        (/\ tasks[t].frequency \in {"daily", "weekly"}
         /\ tasks[t].due_date # None
         /\ MayMarkComplete(t))
        => LET m == mark_complete(pets, tasks, t, now)
               new == m.tasks[m.returned[1]]
           IN /\ m.returned # None
              /\ m.returned[1] \notin 1..Len(tasks)
              /\ m.returned[1] \in 1..Len(m.tasks)
              /\ new.status = "pending"
              /\ new.due_date = Some(tasks[t].due_date[1]
                                      + (IF tasks[t].frequency = "daily" THEN 1 ELSE 7))
              /\ new.description = tasks[t].description
              /\ new.duration = tasks[t].duration
              /\ new.priority = tasks[t].priority
              /\ new.frequency = tasks[t].frequency
              /\ new.time = tasks[t].time
              /\ new.pet = tasks[t].pet

\* mark_complete has just returned the successor of a weekly task, due a
\* week after it
C17_Witness ==
    /\ call.returned # None
    /\ tasks[call.returned[1]].frequency = "weekly"
    /\ tasks[call.returned[1]].due_date = Some(Today + 7)
    /\ tasks[call.returned[1]].status = "pending"
    /\ \E t \in 1..Len(tasks) :
          /\ tasks[t].status = "completed"
          /\ tasks[t].frequency = "weekly"
          /\ tasks[t].due_date = Some(Today)

C19_SuccessorAttached ==
    \A t \in 1..Len(tasks), now \in NowInputs :
        (/\ tasks[t].frequency \in {"daily", "weekly"}
         /\ tasks[t].pet # None
         /\ MayMarkComplete(t))
        => LET m == mark_complete(pets, tasks, t, now)
               p == tasks[t].pet[1]
           IN /\ m.returned # None
              /\ m.returned[1] \in Range(m.pets[p].tasks)
              /\ m.tasks[m.returned[1]].pet = Some(p)

(***************************************************************************)
(* The collections of the pets: tasks created without a pet, then added    *)
(* to and removed from any pet, and completed, in any order.               *)
(***************************************************************************)
\* at most this many task objects exist in a run over the collections
MaxPetTasks == 2

\* the tasks created without a pet: a daily one and one that does not recur
PetInputs == {input \in LifeInputs : input.frequency # "weekly"}

\* Task(...): a new task that belongs to no pet
CreateTask(input) ==
    /\ AtRest
    /\ Len(tasks) < MaxPetTasks
    /\ tasks' = Append(tasks, RecurringTask(input.description, input.duration,
                                            input.priority, input.frequency,
                                            input.time, input.due_date))
    /\ call' = NoCall
    /\ pets' = pets
    /\ NotGenerating

\* pet.add_task(task)
PetAddTask(p, t) ==
    /\ AtRest
    /\ t \in 1..Len(tasks)
    /\ LET added == add_task(pets, tasks, p, t)
       IN /\ pets' = added.pets
          /\ tasks' = added.tasks
    /\ call' = NoCall
    /\ NotGenerating

\* pet.remove_task(task)
PetRemoveTask(p, t) ==
    /\ AtRest
    /\ t \in 1..Len(tasks)
    /\ LET removed == remove_task(pets, tasks, p, t)
       IN /\ pets' = removed.pets
          /\ tasks' = removed.tasks
    /\ call' = NoCall
    /\ NotGenerating

\* task.mark_complete() on a task created this way
PetMarkComplete(t, now) == MarkCompleteWithin(MaxPetTasks, t, now)

PetNext ==
    \/ \E input \in PetInputs : CreateTask(input)
    \/ \E p \in 1..Len(PetNames), t \in 1..MaxPetTasks : PetAddTask(p, t)
    \/ \E p \in 1..Len(PetNames), t \in 1..MaxPetTasks : PetRemoveTask(p, t)
    \/ \E t \in 1..MaxPetTasks, now \in NowInputs : PetMarkComplete(t, now)

PetSpec == LifeInit /\ [][PetNext]_vars

\* C20 as claimed: after any sequence of add_task, remove_task and
\* mark_complete operations on tasks created without a pet, each task is in
\* the collection of at most one pet, at most once, and it is in the
\* collection of pet P exactly when its back-reference is P.
C20_OnePetAndBackReference ==
    \A t \in 1..Len(tasks) :
        /\ Cardinality({p \in 1..Len(pets) : t \in Range(pets[p].tasks)}) <= 1
        /\ \A p \in 1..Len(pets) :
              /\ Cardinality({k \in 1..Len(pets[p].tasks) : pets[p].tasks[k] = t}) <= 1
              /\ t \in Range(pets[p].tasks) <=> tasks[t].pet = Some(p)

(***************************************************************************)
(* The collections of two owners: pets created without an owner, then      *)
(* added to and removed from either owner in any order.                    *)
(***************************************************************************)
\* at most this many Pet objects exist in a run over the owners
MaxPets == 3

\* the names of the pets, in the order of their creation
OwnerPetNames == <<"Buddy", "Whiskers", "Rex", "Luna", "Milo">>

\* the two owners, the first being the variable owner
Owners == <<owner, other_owner>>

OwnerInit ==
    /\ owner = [ name |-> Some("Alex"), preferences |-> None, pets |-> <<>>,
                 available_time_minutes |-> 480 ]
    /\ other_owner = SecondOwner
    /\ pets = <<>>
    /\ tasks = <<>>
    /\ pc = "idle"
    /\ all_tasks = <<>>
    /\ fixed_time_tasks = <<>>
    /\ flexible_tasks = <<>>
    /\ sorted_flexible_tasks = <<>>
    /\ idx = 0
    /\ scheduled_tasks = <<>>
    /\ skipped_tasks = <<>>
    /\ remaining_time_minutes = 0
    /\ total_time_used = 0
    /\ occupied_intervals = <<>>
    /\ result = None
    /\ call = NoCall

\* Pet(name=...): a new pet that belongs to no owner
CreatePet ==
    /\ Len(pets) < MaxPets
    /\ Len(pets) < Len(OwnerPetNames)
    /\ pets' = Append(pets, [name |-> OwnerPetNames[Len(pets) + 1], owner |-> None,
                             tasks |-> <<>>])
    /\ UNCHANGED <<owner, other_owner, tasks, pc, locals, result, call>>

\* owner.add_pet(pet) on owner o
OwnerAddPet(o, p) ==
    /\ p \in 1..Len(pets)
    /\ LET added == add_pet(Owners, pets, o, p)
       IN /\ owner' = added.owners[1]
          /\ other_owner' = added.owners[2]
          /\ pets' = added.pets
    /\ UNCHANGED <<tasks, pc, locals, result, call>>

\* owner.remove_pet(pet) on owner o
OwnerRemovePet(o, p) ==
    /\ p \in 1..Len(pets)
    /\ LET removed == remove_pet(Owners, pets, o, p)
       IN /\ owner' = removed.owners[1]
          /\ other_owner' = removed.owners[2]
          /\ pets' = removed.pets
    /\ UNCHANGED <<tasks, pc, locals, result, call>>

OwnerNext ==
    \/ CreatePet
    \/ \E o \in 1..2, p \in 1..MaxPets : OwnerAddPet(o, p)
    \/ \E o \in 1..2, p \in 1..MaxPets : OwnerRemovePet(o, p)

OwnerSpec == OwnerInit /\ [][OwnerNext]_vars

\* C21 as claimed: after any sequence of add_pet and remove_pet operations,
\* each pet is in the collection of at most one owner, at most once, and it
\* is in the collection of owner O exactly when its back-reference is O.
C21_OneOwnerAndBackReference ==
    \A p \in 1..Len(pets) :
        /\ Cardinality({o \in 1..2 : p \in Range(Owners[o].pets)}) <= 1
        /\ \A o \in 1..2 :
              /\ Cardinality({k \in 1..Len(Owners[o].pets) : Owners[o].pets[k] = p}) <= 1
              /\ p \in Range(Owners[o].pets) <=> pets[p].owner = Some(o)

(***************************************************************************)
(* The views over a task list: Scheduler.sort_by_time, filter_tasks and    *)
(* detect_conflicts applied to a list built as the tests and main.py build *)
(* it.  The list passed in is all_tasks; call records the call made.       *)
(***************************************************************************)
MaxViewTasks == 3

\* the characters of a "HH:MM" string, the ":" standing between the digits
TimeString(time) ==
    <<time[1] \div 10, time[1] % 10, 10, time[2] \div 10, time[2] % 10>>

\* sort_by_time with the tasks that have no time placed first
sort_by_time_untimed_first(list, ts) ==
    LET tasks_with_time == SelectSeq(list, LAMBDA t : ts[t].time # None)
        tasks_without_time == SelectSeq(list, LAMBDA t : ts[t].time = None)
        sorted_with_time ==
            Sorted(tasks_with_time, [i \in 1..Len(tasks_with_time) |->
                                       TimeString(ts[tasks_with_time[i]].time)])
    IN tasks_without_time \o sorted_with_time

\* Scheduler.sort_by_time
sort_by_time(list, ts) ==
    LET tasks_with_time == SelectSeq(list, LAMBDA t : ts[t].time # None)
        tasks_without_time == SelectSeq(list, LAMBDA t : ts[t].time = None)
        sorted_with_time ==
            Sorted(tasks_with_time, [i \in 1..Len(tasks_with_time) |->
                                       TimeString(ts[tasks_with_time[i]].time)])
    IN sorted_with_time \o tasks_without_time

\* filter_tasks comparing the pet's name with the argument as it was given
filter_tasks_name_as_given(list, pet_name, status, ts, ps) ==
    LET by_pet == IF pet_name # None
                  THEN SelectSeq(list, LAMBDA t :
                           /\ ts[t].pet # None
                           /\ Lower(ps[ts[t].pet[1]].name) = pet_name[1])
                  ELSE list
    IN IF status # None
       THEN SelectSeq(by_pet, LAMBDA t : ts[t].status = Lower(status[1]))
       ELSE by_pet

\* Scheduler.filter_tasks; pet_name and status are None or Some(string)
filter_tasks(list, pet_name, status, ts, ps) ==
    LET by_pet == IF pet_name # None
                  THEN SelectSeq(list, LAMBDA t :
                           /\ ts[t].pet # None
                           /\ Lower(ps[ts[t].pet[1]].name) = Lower(pet_name[1]))
                  ELSE list
    IN IF status # None
       THEN SelectSeq(by_pet, LAMBDA t : ts[t].status = Lower(status[1]))
       ELSE by_pet

ViewPetNames == <<"Buddy", "Milo">>

\* the tasks the lists are built from: Task(..., status=..., pet=...)
ViewInputs ==
    { [description |-> "Walk",   duration |-> Some(30), time |-> <<8, 0>>,  pet |-> Some(1), status |-> "pending"],
      [description |-> "Feed",   duration |-> Some(15), time |-> <<8, 0>>,  pet |-> Some(1), status |-> "completed"],
      [description |-> "Litter", duration |-> Some(30), time |-> <<8, 30>>, pet |-> Some(2), status |-> "pending"],
      [description |-> "Groom",  duration |-> None,     time |-> <<8, 15>>, pet |-> None,    status |-> "pending"],
      [description |-> "Play",   duration |-> Some(20), time |-> None,      pet |-> Some(2), status |-> "scheduled"],
      [description |-> "Meds",   duration |-> Some(60), time |-> <<7, 45>>, pet |-> None,    status |-> "skipped"],
      [description |-> "Nap",    duration |-> Some(0),  time |-> <<12, 5>>, pet |-> Some(2), status |-> "pending"],
      [description |-> "Brush",  duration |-> Some(10), time |-> None,      pet |-> None,    status |-> "completed"] }

PetNameArgs == {None, Some("buddy"), Some("BUDDY"), Some("Milo"), Some("Rex")}

StatusArgs == {None, Some("pending"), Some("PENDING"), Some("Completed"), Some("done")}

ViewInit ==
    /\ owner = [ name |-> Some("Alex"), preferences |-> None, pets |-> <<>>,
                 available_time_minutes |-> 480 ]
    /\ other_owner = SecondOwner
    /\ pets = [p \in 1..Len(ViewPetNames) |->
                 [name |-> ViewPetNames[p], owner |-> None, tasks |-> <<>>]]
    /\ tasks = <<>>
    /\ pc = "idle"
    /\ all_tasks = <<>>
    /\ fixed_time_tasks = <<>>
    /\ flexible_tasks = <<>>
    /\ sorted_flexible_tasks = <<>>
    /\ idx = 0
    /\ scheduled_tasks = <<>>
    /\ skipped_tasks = <<>>
    /\ remaining_time_minutes = 0
    /\ total_time_used = 0
    /\ occupied_intervals = <<>>
    /\ result = None
    /\ call = NoCall

view_frame == <<owner, other_owner, pets, pc, fixed_time_tasks, flexible_tasks,
                sorted_flexible_tasks, idx, scheduled_tasks, skipped_tasks,
                remaining_time_minutes, total_time_used, occupied_intervals, result>>

\* a task is constructed and put at the end of the list; the list is built
\* before the views are called on it
ViewCreateTask(input) ==
    /\ call = NoCall
    /\ Len(tasks) < MaxViewTasks
    /\ tasks' = Append(tasks, [ Task(input.description, input.duration, MEDIUM, input.time)
                                  EXCEPT !.status = input.status, !.pet = input.pet ])
    /\ all_tasks' = Append(all_tasks, Len(tasks) + 1)
    /\ UNCHANGED <<view_frame, call>>

\* the record of a call of a view on the list
ViewCall(op, pet_name, status, returned) ==
    [ op |-> op, tasks |-> all_tasks, pet_name |-> pet_name, status |-> status,
      returned |-> Some(returned), raised |-> None ]

\* sort_by_time sorting the list it is given in place: tasks.sort(key=...)
SortByTime_in_place ==
    /\ all_tasks # <<>>
    /\ call' = ViewCall("sort_by_time", None, None, sort_by_time(all_tasks, tasks))
    /\ all_tasks' = sort_by_time(all_tasks, tasks)
    /\ UNCHANGED <<view_frame, tasks>>

\* scheduler.sort_by_time(all_tasks)
SortByTime ==
    /\ all_tasks # <<>>
    /\ call' = ViewCall("sort_by_time", None, None, sort_by_time(all_tasks, tasks))
    /\ UNCHANGED <<view_frame, tasks, all_tasks>>

\* scheduler.filter_tasks(all_tasks, pet_name=..., status=...)
FilterTasks(pet_name, status) ==
    /\ all_tasks # <<>>
    /\ call' = ViewCall("filter_tasks", pet_name, status,
                        filter_tasks(all_tasks, pet_name, status, tasks, pets))
    /\ UNCHANGED <<view_frame, tasks, all_tasks>>

\* scheduler.detect_conflicts(all_tasks)
DetectConflicts ==
    /\ all_tasks # <<>>
    /\ call' = ViewCall("detect_conflicts", None, None,
                        detect_conflicts(all_tasks, pets, tasks))
    /\ UNCHANGED <<view_frame, tasks, all_tasks>>

ViewNext ==
    \/ \E input \in ViewInputs : ViewCreateTask(input)
    \/ SortByTime
    \/ \E pet_name \in PetNameArgs, status \in StatusArgs : FilterTasks(pet_name, status)
    \/ DetectConflicts

ViewSpec == ViewInit /\ [][ViewNext]_vars

\* the call recorded is a call of op
Called(op) == call # NoCall /\ call.op = op

\* the tasks at positions i and j of list both have a time and a duration and
\* start1 < end2 and start2 < end1 for their intervals [time, time + duration)
StrictlyOverlap(list, i, j) ==
    LET a == tasks[list[i]]
        b == tasks[list[j]]
    IN /\ a.time # None /\ a.duration # None
       /\ b.time # None /\ b.duration # None
       /\ a.time[1] * 60 + a.time[2] < b.time[1] * 60 + b.time[2] + b.duration[1]
       /\ b.time[1] * 60 + b.time[2] < a.time[1] * 60 + a.time[2] + a.duration[1]

\* C22: detect_conflicts returns one record (task1 the earlier in the list)
\* for each pair of list positions whose tasks both have a time and a
\* duration and whose intervals strictly overlap, and no other record; a
\* task that overlaps k others is in k records.
C22_ConflictsExactlyOverlappingPairs ==
    Called("detect_conflicts") =>
        LET list == call.tasks
            conflicts == call.returned[1]
        IN /\ \A k \in 1..Len(conflicts) :
                 \E i, j \in 1..Len(list) :
                    /\ i < j
                    /\ conflicts[k].task1 = list[i]
                    /\ conflicts[k].task2 = list[j]
                    /\ StrictlyOverlap(list, i, j)
           /\ \A i, j \in 1..Len(list) :
                 i < j =>
                    /\ Cardinality({k \in 1..Len(conflicts) :
                                      /\ conflicts[k].task1 = list[i]
                                      /\ conflicts[k].task2 = list[j]})
                         = IF StrictlyOverlap(list, i, j) THEN 1 ELSE 0
                    /\ ~\E k \in 1..Len(conflicts) :
                          /\ conflicts[k].task1 = list[j]
                          /\ conflicts[k].task2 = list[i]
           /\ \A i \in 1..Len(list) :
                 Cardinality({k \in 1..Len(conflicts) :
                                 list[i] \in {conflicts[k].task1, conflicts[k].task2}})
                   = Cardinality({j \in 1..Len(list) \ {i} : StrictlyOverlap(list, i, j)})

\* a list in which one task overlaps two others that only touch each other,
\* checked with a task that has no duration or no time beside them
C22_Witness ==
    /\ Called("detect_conflicts")
    /\ Len(call.returned[1]) = 2
    /\ \E i \in 1..Len(call.tasks) :
          Cardinality({k \in 1..2 : call.tasks[i] \in {call.returned[1][k].task1,
                                                        call.returned[1][k].task2}}) = 2
    /\ \E i, j \in 1..Len(call.tasks) :
          LET a == tasks[call.tasks[i]]
              b == tasks[call.tasks[j]]
          IN /\ a.time # None /\ a.duration # None /\ b.time # None
             /\ time_to_minutes(a.time) + a.duration[1] = time_to_minutes(b.time)

\* a call on a list holding a task that has a time and no duration
C22_WitnessNoDuration ==
    /\ Called("detect_conflicts")
    /\ Len(call.returned[1]) = 1
    /\ \E i \in 1..Len(call.tasks) :
          tasks[call.tasks[i]].time # None /\ tasks[call.tasks[i]].duration = None

(***************************************************************************)
(* The order of the flexible loop: generation passes over tasks that       *)
(* differ in priority and duration, with durations that are missing, zero  *)
(* and equal.                                                              *)
(***************************************************************************)
MaxPriorityTasks == 3

PriorityAvailableTime == 60

PriorityInputs ==
    { [description |-> "Long",   time |-> None,     duration |-> Some(20), priority |-> HIGH],
      [description |-> "Short",  time |-> None,     duration |-> Some(10), priority |-> HIGH],
      [description |-> "Low",    time |-> None,     duration |-> Some(5),  priority |-> LOW],
      [description |-> "NoDur",  time |-> None,     duration |-> None,     priority |-> MEDIUM],
      [description |-> "Zero",   time |-> None,     duration |-> Some(0),  priority |-> MEDIUM],
      [description |-> "Mid",    time |-> None,     duration |-> Some(40), priority |-> MEDIUM],
      [description |-> "Fixed",  time |-> <<8, 0>>, duration |-> Some(15), priority |-> LOW] }

PriorityInit ==
    /\ owner = [ name |-> Some("Alex"), preferences |-> None, pets |-> <<1, 2>>,
                 available_time_minutes |-> PriorityAvailableTime ]
    /\ other_owner = SecondOwner
    /\ pets = [p \in 1..Len(PetNames) |->
                 [name |-> PetNames[p], owner |-> Some(1), tasks |-> <<>>]]
    /\ tasks = <<>>
    /\ pc = "idle"
    /\ all_tasks = <<>>
    /\ fixed_time_tasks = <<>>
    /\ flexible_tasks = <<>>
    /\ sorted_flexible_tasks = <<>>
    /\ idx = 0
    /\ scheduled_tasks = <<>>
    /\ skipped_tasks = <<>>
    /\ remaining_time_minutes = 0
    /\ total_time_used = 0
    /\ occupied_intervals = <<>>
    /\ result = None
    /\ call = NoCall

\* Task(...) followed by pets[0].add_task(task)
EnterPriorityTask(input) ==
    /\ pc = "idle"
    /\ Len(tasks) < MaxPriorityTasks
    /\ LET t == Len(tasks) + 1
           created == Append(tasks, Task(input.description, input.duration,
                                         input.priority, input.time))
           added == add_task(pets, created, 1, t)
       IN /\ pets' = added.pets
          /\ tasks' = added.tasks
    /\ UNCHANGED <<owner, other_owner, pc, locals, result, call>>

PriorityNext ==
    \/ \E input \in PriorityInputs : EnterPriorityTask(input)
    \/ GenerateBegin
    \/ PlaceFixed
    \/ FixedDone
    \/ PlaceFlexible
    \/ GenerateFinish

PrioritySpec == PriorityInit /\ [][PriorityNext]_vars

\* the position of task t in list
PositionIn(list, t) == CHOOSE i \in 1..Len(list) : list[i] = t

\* the duration a task is ordered by: 0 when it has none
OrderingDuration(t) == IF tasks[t].duration = None THEN 0 ELSE tasks[t].duration[1]

\* the task ids of a list of result entries
EntryTasks(entries) == [i \in 1..Len(entries) |-> entries[i].task]

\* C23: the sorted flexible tasks are a permutation of the flexible tasks in
\* descending priority, then ascending duration with a missing duration as
\* 0, equal keys in input order; the flexible loop handles them in this
\* order: after idx - 1 iterations the first idx - 1 of them, and no other,
\* have been scheduled or skipped, each list in this order.
C23_PriorityOrder ==
    pc \in {"placing-flexible", "done"} =>
        LET sorted == sorted_flexible_tasks
            handled == SubSeq(sorted, 1, idx - 1)
        IN /\ Len(sorted) = Len(flexible_tasks)
           /\ Range(sorted) = Range(flexible_tasks)
           /\ \A i, j \in 1..Len(sorted) :
                 i < j =>
                    \/ tasks[sorted[i]].priority > tasks[sorted[j]].priority
                    \/ /\ tasks[sorted[i]].priority = tasks[sorted[j]].priority
                       /\ OrderingDuration(sorted[i]) < OrderingDuration(sorted[j])
                    \/ /\ tasks[sorted[i]].priority = tasks[sorted[j]].priority
                       /\ OrderingDuration(sorted[i]) = OrderingDuration(sorted[j])
                       /\ PositionIn(flexible_tasks, sorted[i])
                            < PositionIn(flexible_tasks, sorted[j])
           /\ pc = "placing-flexible" =>
                 /\ SelectSeq(EntryTasks(scheduled_tasks), LAMBDA t : tasks[t].time = None)
                      = SelectSeq(handled, LAMBDA t : t \in Range(EntryTasks(scheduled_tasks)))
                 /\ SelectSeq(EntryTasks(skipped_tasks), LAMBDA t : tasks[t].time = None)
                      = SelectSeq(handled, LAMBDA t : t \in Range(EntryTasks(skipped_tasks)))
                 /\ \A i \in 1..Len(sorted) :
                       i < idx <=> sorted[i] \in Range(EntryTasks(scheduled_tasks))
                                                  \cup Range(EntryTasks(skipped_tasks))

\* the loop has handled three flexible tasks in an order that is not the
\* input order, a task without duration placed by its priority among them,
\* and two with equal keys
C23_Witness ==
    /\ pc = "placing-flexible"
    /\ idx = 4
    /\ Len(sorted_flexible_tasks) = 3
    /\ sorted_flexible_tasks # flexible_tasks
    /\ \E i \in 1..3 : tasks[sorted_flexible_tasks[i]].duration = None
    /\ \E i, j \in 1..3 :
          /\ i < j
          /\ tasks[sorted_flexible_tasks[i]].priority = tasks[sorted_flexible_tasks[j]].priority
          /\ OrderingDuration(sorted_flexible_tasks[i]) = OrderingDuration(sorted_flexible_tasks[j])
    /\ scheduled_tasks # <<>>
    /\ skipped_tasks # <<>>

\* the string a comes before the string b, character by character
StringBefore(a, b) ==
    \E k \in 1..Len(a) :
        /\ \A i \in 1..(k - 1) : a[i] = b[i]
        /\ a[k] < b[k]

\* C24: sort_by_time returns a permutation of its input: first the tasks
\* that have a time, ascending by time string, equal times in input order,
\* then the tasks without a time in their input order.
C24_SortByTime ==
    Called("sort_by_time") =>
        LET list == call.tasks
            sorted == call.returned[1]
            timed(t) == tasks[t].time # None
        IN /\ Len(sorted) = Len(list)
           /\ Range(sorted) = Range(list)
           /\ \A i, j \in 1..Len(sorted) :
                 i < j =>
                    \/ timed(sorted[i]) /\ ~timed(sorted[j])
                    \/ /\ timed(sorted[i]) /\ timed(sorted[j])
                       /\ \/ StringBefore(TimeString(tasks[sorted[i]].time),
                                          TimeString(tasks[sorted[j]].time))
                          \/ /\ tasks[sorted[i]].time = tasks[sorted[j]].time
                             /\ PositionIn(list, sorted[i]) < PositionIn(list, sorted[j])
                    \/ /\ ~timed(sorted[i]) /\ ~timed(sorted[j])
                       /\ PositionIn(list, sorted[i]) < PositionIn(list, sorted[j])

\* a list that starts with a task without a time, followed by two tasks
\* with times in descending order, has been sorted
C24_Witness ==
    /\ Called("sort_by_time")
    /\ Len(call.tasks) = 3
    /\ tasks[call.tasks[1]].time = None
    /\ tasks[call.tasks[2]].time # None
    /\ tasks[call.tasks[3]].time # None
    /\ StringBefore(TimeString(tasks[call.tasks[3]].time), TimeString(tasks[call.tasks[2]].time))
    /\ call.returned[1] = <<call.tasks[3], call.tasks[2], call.tasks[1]>>

\* two tasks with the same time and two without a time keep their order
C24_WitnessEqualTimes ==
    /\ Called("sort_by_time")
    /\ Len(call.tasks) = 3
    /\ tasks[call.tasks[1]].time # None
    /\ tasks[call.tasks[1]].time = tasks[call.tasks[3]].time
    /\ tasks[call.tasks[2]].time = None

\* the spellings of one name or status value that differ in case only
CaseVariants ==
    { {"buddy", "Buddy", "BUDDY"}, {"milo", "Milo", "MILO"}, {"rex", "Rex"},
      {"pending", "PENDING"}, {"completed", "Completed"}, {"scheduled"}, {"skipped"},
      {"done"} }

EqualIgnoringCase(a, b) == a = b \/ \E v \in CaseVariants : a \in v /\ b \in v

\* the task passes the filters given
Matches(t, pet_name, status) ==
    /\ pet_name # None =>
          /\ tasks[t].pet # None
          /\ EqualIgnoringCase(pets[tasks[t].pet[1]].name, pet_name[1])
    /\ status # None => EqualIgnoringCase(tasks[t].status, status[1])

\* C25: filter_tasks returns, in input order, exactly the tasks whose pet's
\* name equals pet_name ignoring case (when given; a task without a pet
\* does not match) and whose status equals status ignoring case (when
\* given); both filters in one call equal the two filters applied one after
\* the other, in either order.
C25_FilterTasks ==
    Called("filter_tasks") =>
        LET list == call.tasks
            filtered == call.returned[1]
        IN /\ \A i \in 1..Len(filtered) : filtered[i] \in Range(list)
           /\ \A i, j \in 1..Len(filtered) :
                 i < j => PositionIn(list, filtered[i]) < PositionIn(list, filtered[j])
           /\ \A i \in 1..Len(list) :
                 list[i] \in Range(filtered) <=> Matches(list[i], call.pet_name, call.status)
           /\ filtered = filter_tasks(filter_tasks(list, call.pet_name, None, tasks, pets),
                                      None, call.status, tasks, pets)
           /\ filtered = filter_tasks(filter_tasks(list, None, call.status, tasks, pets),
                                      call.pet_name, None, tasks, pets)

\* both filters given in upper case on a list with a task that matches both,
\* one that matches the name only and one without a pet
C25_Witness ==
    /\ Called("filter_tasks")
    /\ call.pet_name = Some("BUDDY")
    /\ call.status = Some("PENDING")
    /\ Len(call.tasks) = 3
    /\ Len(call.returned[1]) = 1
    /\ \E i \in 1..3 : tasks[call.tasks[i]].pet = None /\ tasks[call.tasks[i]].status = "pending"
    /\ \E i \in 1..3 : tasks[call.tasks[i]].pet = Some(1) /\ tasks[call.tasks[i]].status = "completed"

\* a name filter that no pet has, and a status filter that is no status
C25_WitnessNoMatch ==
    /\ Called("filter_tasks")
    /\ call.pet_name = Some("Rex")
    /\ Len(call.tasks) = 3
    /\ call.returned[1] = <<>>

\* a step that makes a call of sort_by_time or filter_tasks
ViewStep ==
    /\ call' # NoCall
    /\ call'.op \in {"sort_by_time", "filter_tasks"}
    /\ \/ call = NoCall
       \/ <<call.op, call.tasks, call.pet_name, call.status>>
             # <<call'.op, call'.tasks, call'.pet_name, call'.status>>
       \/ call.returned # call'.returned

\* C26: a call of sort_by_time or filter_tasks leaves the list it is given
\* and every task as they were; made again with the same arguments it
\* returns the same; applied to its own result it returns that result.
C26_ViewsPureAndIdempotent ==
    [][ViewStep =>
          /\ all_tasks' = all_tasks
          /\ tasks' = tasks
          /\ pets' = pets
          /\ (/\ call # NoCall
              /\ call.op = call'.op
              /\ call.tasks = call'.tasks
              /\ call.pet_name = call'.pet_name
              /\ call.status = call'.status) => call'.returned = call.returned
          /\ call'.op = "sort_by_time" =>
                sort_by_time(call'.returned[1], tasks') = call'.returned[1]
          /\ call'.op = "filter_tasks" =>
                filter_tasks(call'.returned[1], call'.pet_name, call'.status, tasks', pets')
                  = call'.returned[1]]_vars

\* sort_by_time has returned another order than that of the list it was
\* given, and the list is as it was
C26_Witness ==
    /\ Called("sort_by_time")
    /\ call.returned[1] # call.tasks
    /\ all_tasks = call.tasks
    /\ Len(all_tasks) = MaxViewTasks

(***************************************************************************)
(* Task.update_task with every kind of argument list, on tasks that have   *)
(* a status, a pet, a time and a due date, and on tasks that have none.    *)
(***************************************************************************)
MaxUpdateTasks == 1

UpdateTaskInputs ==
    { [pet |-> Some(1), description |-> "Original", duration |-> Some(30),
       priority |-> MEDIUM, frequency |-> "once", time |-> <<8, 0>>,
       due_date |-> Some(Today), status |-> "completed"],
      [pet |-> None, description |-> "Plain", duration |-> None,
       priority |-> LOW, frequency |-> "weekly", time |-> None,
       due_date |-> None, status |-> "pending"] }

\* nothing supplied
NoArgs ==
    [ description |-> None, duration |-> None, priority |-> None, frequency |-> None,
      time |-> None, due_date |-> None ]

\* the argument lists: none, each argument alone, time and due_date alone as
\* None, the two calls of the test, and all arguments
UpdateArgs ==
    { NoArgs,
      [NoArgs EXCEPT !.description = Some("Updated")],
      [NoArgs EXCEPT !.duration = Some(45)],
      [NoArgs EXCEPT !.priority = Some(HIGH)],
      [NoArgs EXCEPT !.frequency = Some("daily")],
      [NoArgs EXCEPT !.time = Some(<<9, 30>>)],
      [NoArgs EXCEPT !.time = Some(None)],
      [NoArgs EXCEPT !.due_date = Some(Some(Today + 1))],
      [NoArgs EXCEPT !.due_date = Some(None)],
      [NoArgs EXCEPT !.description = Some("Updated"), !.duration = Some(45),
                     !.priority = Some(HIGH)],
      [NoArgs EXCEPT !.frequency = Some("daily"), !.time = Some(None),
                     !.due_date = Some(None)],
      [ description |-> Some("Updated"), duration |-> Some(45), priority |-> Some(HIGH),
        frequency |-> Some("daily"), time |-> Some(<<9, 30>>),
        due_date |-> Some(Some(Today + 1)) ] }

\* Task(...), and pet.add_task(task) where the input names a pet
UpdateCreateTask(input) ==
    /\ Len(tasks) < MaxUpdateTasks
    /\ LET t == Len(tasks) + 1
           created == Append(tasks,
                             [ RecurringTask(input.description, input.duration,
                                             input.priority, input.frequency,
                                             input.time, input.due_date)
                                 EXCEPT !.status = input.status ])
           added == IF input.pet # None THEN add_task(pets, created, input.pet[1], t)
                    ELSE [pets |-> pets, tasks |-> created]
       IN /\ pets' = added.pets
          /\ tasks' = added.tasks
    /\ call' = NoCall
    /\ UNCHANGED <<owner, other_owner, pc, locals, result>>

\* task.update_task(**u)
UpdateTaskWith(t, u) ==
    /\ t \in 1..Len(tasks)
    /\ tasks' = [tasks EXCEPT ![t] = update_task(@, u)]
    /\ call' = [ op |-> "update_task", task |-> t, args |-> u,
                 returned |-> None, raised |-> None ]
    /\ UNCHANGED <<owner, other_owner, pets, pc, locals, result>>

UpdateNext ==
    \/ \E input \in UpdateTaskInputs : UpdateCreateTask(input)
    \/ \E t \in 1..MaxUpdateTasks, u \in UpdateArgs : UpdateTaskWith(t, u)

UpdateSpec == LifeInit /\ [][UpdateNext]_vars

\* C27: a call of update_task assigns each supplied field its argument and
\* leaves the omitted fields, the status and the pet of the task, every
\* other task and every pet as they were; a time or due_date supplied as
\* None is assigned None, one that is omitted is kept.
C27_UpdateFrame ==
    [][(call' # NoCall /\ call'.op = "update_task") =>
          LET t == call'.task
              u == call'.args
              before == tasks[t]
              after == tasks'[t]
          IN /\ Len(tasks') = Len(tasks)
             /\ \A other \in 1..Len(tasks) : other # t => tasks'[other] = tasks[other]
             /\ pets' = pets
             /\ after.status = before.status
             /\ after.pet = before.pet
             /\ after.description = IF u.description # None THEN u.description[1]
                                    ELSE before.description
             /\ after.duration = IF u.duration # None THEN u.duration ELSE before.duration
             /\ after.priority = IF u.priority # None THEN u.priority[1] ELSE before.priority
             /\ after.frequency = IF u.frequency # None THEN u.frequency[1]
                                  ELSE before.frequency
             /\ after.time = IF u.time # None THEN u.time[1] ELSE before.time
             /\ after.due_date = IF u.due_date # None THEN u.due_date[1]
                                 ELSE before.due_date]_vars

\* update_task(time=None) on a completed task of a pet that had a time and a
\* due date: the time is cleared, the due date kept
C27_Witness ==
    /\ call # NoCall
    /\ call.op = "update_task"
    /\ call.args = [NoArgs EXCEPT !.time = Some(None)]
    /\ tasks[call.task].time = None
    /\ tasks[call.task].due_date = Some(Today)
    /\ tasks[call.task].status = "completed"
    /\ tasks[call.task].pet = Some(1)
    /\ tasks[call.task].description = "Original"

\* update_task(description=..., duration=..., priority=...) as in the test
C27_WitnessSupplied ==
    /\ call # NoCall
    /\ call.op = "update_task"
    /\ call.args = [NoArgs EXCEPT !.description = Some("Updated"), !.duration = Some(45),
                                  !.priority = Some(HIGH)]
    /\ tasks[call.task].priority = HIGH
    /\ tasks[call.task].frequency = "once"
    /\ tasks[call.task].time = <<8, 0>>

(***************************************************************************)
(* The early returns of generate_schedule, on tasks in every status.       *)
(***************************************************************************)
ExitNext ==
    \/ \E input \in LifeInputs : EnterTask(input)
    \/ \E t \in 1..MaxTasks, new_status \in StatusInputs : ChangeStatus(t, new_status)
    \/ GenerateNoOwner
    \/ Generate

ExitSpec == LifeInit /\ [][ExitNext]_vars

\* no pet of the owner has a pending task
NoPendingTask ==
    \A i \in 1..Len(owner.pets) :
        \A k \in 1..Len(pets[owner.pets[i]].tasks) :
            tasks[pets[owner.pets[i]].tasks[k]].status # "pending"

\* C28: a call of generate_schedule without an owner, and one for an owner
\* none of whose pets has a pending task, returns empty scheduled_tasks and
\* skipped_tasks, total_time_used 0 and the explanation of its case, and
\* leaves the status of every task as it was.
C28_EarlyExits ==
    [][(result' # None /\ (pc' = "no-owner" \/ NoPendingTask)) =>
          /\ result'.scheduled_tasks = <<>>
          /\ result'.skipped_tasks = <<>>
          /\ result'.total_time_used = 0
          /\ result'.explanation.text =
                IF pc' = "no-owner" THEN "No owner specified for scheduling."
                ELSE "No pending tasks to schedule."
          /\ Len(tasks') = Len(tasks)
          /\ \A t \in 1..Len(tasks) : tasks'[t].status = tasks[t].status]_vars

\* the call without an owner has returned while a task was pending
C28_Witness ==
    /\ pc = "no-owner"
    /\ result # None
    /\ result.explanation.text = "No owner specified for scheduling."
    /\ \E t \in 1..Len(tasks) : tasks[t].status = "pending"
    /\ \E t \in 1..Len(tasks) : tasks[t].status = "scheduled"

\* the call for an owner whose tasks are all scheduled, completed or skipped
C28_WitnessNoPending ==
    /\ pc = "no-pending-tasks"
    /\ result # None
    /\ result.explanation.text = "No pending tasks to schedule."
    /\ Len(tasks) = 3
    /\ \E t \in 1..3 : tasks[t].status = "scheduled"
    /\ \E t \in 1..3 : tasks[t].status = "completed"
    /\ \E t \in 1..3 : tasks[t].status = "skipped"

\* C29: the explanation of a completed pass names the owner's budget of
\* available minutes and the preference window when one is set; it has the
\* sentence "Scheduled N task(s) using M min total", N the length of
\* scheduled_tasks and M total_time_used, exactly when scheduled_tasks is
\* not empty, and the sentence "Skipped K task(s)", K the length of
\* skipped_tasks, exactly when skipped_tasks is not empty.
C29_Explanation ==
    pc = "done" =>
        LET explanation == result.explanation
        IN /\ explanation.text = "Schedule generated"
           /\ explanation.available_time = owner.available_time_minutes
           /\ explanation.time_window = owner.preferences
           /\ result.scheduled_tasks # <<>> =>
                 explanation.scheduled
                   = <<Len(result.scheduled_tasks), result.total_time_used>>
           /\ result.scheduled_tasks = <<>> => explanation.scheduled = None
           /\ result.skipped_tasks # <<>> =>
                 explanation.skipped = <<Len(result.skipped_tasks)>>
           /\ result.skipped_tasks = <<>> => explanation.skipped = None

\* a pass for an owner with a preference has scheduled two tasks and skipped
\* none
C29_Witness ==
    /\ pc = "done"
    /\ owner.preferences = Some("Evening")
    /\ Len(result.scheduled_tasks) = 2
    /\ result.skipped_tasks = <<>>
    /\ result.explanation.scheduled = <<2, result.total_time_used>>
    /\ result.explanation.skipped = None

\* a pass for an owner without a preference has skipped every task
C29_WitnessSkippedOnly ==
    /\ pc = "done"
    /\ owner.preferences = None
    /\ result.scheduled_tasks = <<>>
    /\ Len(result.skipped_tasks) = 3
    /\ result.explanation.scheduled = None
    /\ result.explanation.skipped = <<3>>

(***************************************************************************)
(* _find_available_slot on collections of occupied intervals in any order, *)
(* overlapping or not, on a day of SlotDayEnd minutes.                     *)
(***************************************************************************)
MaxIntervals == 3

SlotDayEnd == 4

\* the intervals (start, end) of the day
IntervalInputs == {<<start, end>> : start \in 0..(SlotDayEnd - 1), end \in 1..SlotDayEnd}

DurationInputs == {1, 2}

\* the windows: [preferred_start_time, day_end_time) and the fallback
\* [0, preferred_start_time)
WindowInputs == {<<0, SlotDayEnd>>, <<1, SlotDayEnd>>, <<2, SlotDayEnd>>, <<0, 3>>, <<0, 2>>}

\* occupied_intervals.append((start, end)), the list left in that order; the
\* collection is built before the calls are made on it
AppendInterval(interval) ==
    /\ call = NoCall
    /\ Len(occupied_intervals) < MaxIntervals
    /\ interval[1] < interval[2]
    /\ occupied_intervals' = Append(occupied_intervals, interval)
    /\ UNCHANGED <<owner, other_owner, pets, tasks, pc, all_tasks, fixed_time_tasks,
                   flexible_tasks, sorted_flexible_tasks, idx, scheduled_tasks,
                   skipped_tasks, remaining_time_minutes, total_time_used, result, call>>

\* self._find_available_slot(duration, occupied_intervals, window[0], window[1]);
\* the call changes nothing, so one call is followed from each collection
FindAvailableSlot(duration, window) ==
    /\ call = NoCall
    /\ call' = [ op |-> "_find_available_slot", duration |-> duration,
                 intervals |-> occupied_intervals,
                 window_start |-> window[1], window_end |-> window[2],
                 returned |-> Some(_find_available_slot(duration, occupied_intervals,
                                                        window[1], window[2])),
                 raised |-> None ]
    /\ UNCHANGED <<owner, other_owner, pets, tasks, pc, locals, result>>

SlotNext ==
    \/ \E interval \in IntervalInputs : AppendInterval(interval)
    \/ \E duration \in DurationInputs, window \in WindowInputs :
          FindAvailableSlot(duration, window)

SlotSpec == ViewInit /\ [][SlotNext]_vars

\* [s, s + duration) meets none of the intervals
FreeOf(intervals, s, duration) ==
    \A i \in 1..Len(intervals) : ~(intervals[i][1] < s + duration /\ s < intervals[i][2])

\* C30: when _find_available_slot returns s, no start from window_start up
\* to s - 1 has its stretch of duration minutes free of the occupied
\* intervals; when it returns None, no start from window_start on has its
\* stretch free and ending by window_end.
C30_EarliestFeasibleStart ==
    Called("_find_available_slot") =>
        LET slot == call.returned[1]
        IN /\ slot # None =>
                 \A s \in call.window_start..(slot[1] - 1) :
                    ~FreeOf(call.intervals, s, call.duration)
           /\ slot = None =>
                 \A s \in call.window_start..(call.window_end - call.duration) :
                    ~FreeOf(call.intervals, s, call.duration)

\* a start after window_start is returned for intervals that are given out
\* of order and overlap each other
C30_Witness ==
    /\ Called("_find_available_slot")
    /\ Len(call.intervals) = 3
    /\ call.intervals[1][1] > call.intervals[2][1]
    /\ call.intervals[2][1] < call.intervals[3][2] /\ call.intervals[3][1] < call.intervals[2][2]
    /\ call.returned[1] # None
    /\ call.returned[1][1] > call.window_start
    /\ FreeOf(call.intervals, call.returned[1][1], call.duration)

\* no slot is reported although two separate minutes of the window are free
C30_WitnessNoSlot ==
    /\ Called("_find_available_slot")
    /\ call.returned[1] = None
    /\ call.duration = 2
    /\ call.window_start = 0
    /\ call.window_end = SlotDayEnd
    /\ Cardinality({s \in 0..(SlotDayEnd - 1) : FreeOf(call.intervals, s, 1)}) = 2

\* C31 as claimed: a start returned by _find_available_slot lies in the
\* window with its whole stretch: window_start <= s and
\* s + duration <= window_end.
C31_SlotInsideWindow ==
    Called("_find_available_slot") =>
        LET slot == call.returned[1]
        IN slot # None =>
              /\ call.window_start <= slot[1]
              /\ slot[1] + call.duration <= call.window_end

(***************************************************************************)
(* The window of the flexible search: generation passes for owners with    *)
(* every kind of preference, over fixed-time tasks that leave room after   *)
(* the preferred start, before it only, or nowhere.                        *)
(***************************************************************************)
MaxWindowTasks == 3

WindowAvailableTime == 3000

WindowPreferences ==
    {None, Some("morning"), Some("Afternoon"), Some("Evening"), Some("night")}

WindowTaskInputs ==
    { [description |-> "From six",  time |-> <<6, 0>>,  duration |-> Some(1080), priority |-> LOW],
      [description |-> "From noon", time |-> <<12, 0>>, duration |-> Some(720),  priority |-> LOW],
      [description |-> "Till six",  time |-> <<0, 0>>,  duration |-> Some(350),  priority |-> LOW],
      [description |-> "Late",      time |-> <<23, 0>>, duration |-> Some(120),  priority |-> LOW],
      [description |-> "Short",     time |-> None,      duration |-> Some(30),   priority |-> HIGH],
      [description |-> "Long",      time |-> None,      duration |-> Some(300),  priority |-> MEDIUM] }

WindowInit ==
    /\ \E preferences \in WindowPreferences :
          owner = [ name |-> Some("Alex"), preferences |-> preferences,
                    pets |-> <<1, 2>>, available_time_minutes |-> WindowAvailableTime ]
    /\ other_owner = SecondOwner
    /\ pets = [p \in 1..Len(PetNames) |->
                 [name |-> PetNames[p], owner |-> Some(1), tasks |-> <<>>]]
    /\ tasks = <<>>
    /\ pc = "idle"
    /\ all_tasks = <<>>
    /\ fixed_time_tasks = <<>>
    /\ flexible_tasks = <<>>
    /\ sorted_flexible_tasks = <<>>
    /\ idx = 0
    /\ scheduled_tasks = <<>>
    /\ skipped_tasks = <<>>
    /\ remaining_time_minutes = 0
    /\ total_time_used = 0
    /\ occupied_intervals = <<>>
    /\ result = None
    /\ call = NoCall

\* Task(...) followed by pets[0].add_task(task)
EnterWindowTask(input) ==
    /\ pc = "idle"
    /\ Len(tasks) < MaxWindowTasks
    /\ LET t == Len(tasks) + 1
           created == Append(tasks, Task(input.description, input.duration,
                                         input.priority, input.time))
           added == add_task(pets, created, 1, t)
       IN /\ pets' = added.pets
          /\ tasks' = added.tasks
    /\ UNCHANGED <<owner, other_owner, pc, locals, result, call>>

WindowNext ==
    \/ \E input \in WindowTaskInputs : EnterWindowTask(input)
    \/ GenerateBegin
    \/ PlaceFixed
    \/ FixedDone
    \/ PlaceFlexible
    \/ GenerateFinish

WindowSpec == WindowInit /\ [][WindowNext]_vars

\* the preferred start the preference stands for
PreferredStart ==
    IF owner.preferences = None THEN 480
    ELSE LET window == owner.preferences[1]
         IN CASE window \in {"morning", "Morning", "MORNING"} -> 360
              [] window \in {"afternoon", "Afternoon", "AFTERNOON"} -> 720
              [] window \in {"evening", "Evening", "EVENING"} -> 1080
              [] OTHER -> 480

\* the starts from the preferred start on at which a stretch of d minutes is
\* free of the occupied intervals and ends within the day
StartsFromPreferred(d) ==
    {s \in PreferredStart..(day_end_time - d) : FreeOf(occupied_intervals, s, d)}

\* the step is an iteration of the flexible loop that places its task
PlacesFlexible ==
    /\ pc = "placing-flexible"
    /\ pc' = "placing-flexible"
    /\ idx' = idx + 1
    /\ Len(scheduled_tasks') = Len(scheduled_tasks) + 1

\* C32: a flexible task that is placed starts at the earliest start from the
\* preferred start on (360 morning, 720 afternoon, 1080 evening, 480
\* otherwise) whose stretch is free and ends by 1440, when there is one;
\* it starts before the preferred start only when there is none.
C32_PlacedFromPreferredStart ==
    [][PlacesFlexible =>
          LET entry == scheduled_tasks'[Len(scheduled_tasks')]
              d == tasks[entry.task].duration[1]
              starts == StartsFromPreferred(d)
          IN /\ starts # {} =>
                   /\ entry.start_time_minutes \in starts
                   /\ \A s \in starts : entry.start_time_minutes <= s
             /\ entry.start_time_minutes < PreferredStart => starts = {}]_vars

\* an owner who prefers the afternoon has a flexible task placed after a
\* gap search: later than 720, behind an occupied interval
C32_Witness ==
    /\ pc = "placing-flexible"
    /\ idx > 1
    /\ owner.preferences = Some("Afternoon")
    /\ scheduled_tasks # <<>>
    /\ LET entry == scheduled_tasks[Len(scheduled_tasks)]
       IN /\ tasks[entry.task].time = None
          /\ entry.start_time_minutes > 720

\* an owner who prefers the evening has a flexible task placed before 1080
\* because nothing is free from 1080 on
C32_WitnessRetry ==
    /\ pc = "placing-flexible"
    /\ idx > 1
    /\ owner.preferences = Some("Evening")
    /\ scheduled_tasks # <<>>
    /\ LET entry == scheduled_tasks[Len(scheduled_tasks)]
       IN /\ tasks[entry.task].time = None
          /\ entry.start_time_minutes < 1080

(***************************************************************************)
(* The fixed-time loop against the budget: generation passes over          *)
(* fixed-time tasks that share a clock time with different priorities,     *)
(* together exceed the owner's minutes, and compete with flexible tasks of *)
(* high priority.                                                          *)
(***************************************************************************)
MaxFixedTasks == 3

FixedAvailableTimes == {60, 100}

FixedTaskInputs ==
    { [description |-> "Walk",  time |-> <<8, 0>>, duration |-> Some(40), priority |-> LOW],
      [description |-> "Meds",  time |-> <<8, 0>>, duration |-> Some(30), priority |-> HIGH],
      [description |-> "Feed",  time |-> <<7, 0>>, duration |-> Some(30), priority |-> MEDIUM],
      [description |-> "Vet",   time |-> <<9, 0>>, duration |-> None,     priority |-> MEDIUM],
      [description |-> "Play",  time |-> None,     duration |-> Some(20), priority |-> HIGH],
      [description |-> "Groom", time |-> None,     duration |-> Some(50), priority |-> HIGH] }

FixedInit ==
    /\ \E available \in FixedAvailableTimes :
          owner = [ name |-> Some("Alex"), preferences |-> None,
                    pets |-> <<1, 2>>, available_time_minutes |-> available ]
    /\ other_owner = SecondOwner
    /\ pets = [p \in 1..Len(PetNames) |->
                 [name |-> PetNames[p], owner |-> Some(1), tasks |-> <<>>]]
    /\ tasks = <<>>
    /\ pc = "idle"
    /\ all_tasks = <<>>
    /\ fixed_time_tasks = <<>>
    /\ flexible_tasks = <<>>
    /\ sorted_flexible_tasks = <<>>
    /\ idx = 0
    /\ scheduled_tasks = <<>>
    /\ skipped_tasks = <<>>
    /\ remaining_time_minutes = 0
    /\ total_time_used = 0
    /\ occupied_intervals = <<>>
    /\ result = None
    /\ call = NoCall

\* Task(...) followed by pets[0].add_task(task)
EnterFixedTask(input) ==
    /\ pc = "idle"
    /\ Len(tasks) < MaxFixedTasks
    /\ LET t == Len(tasks) + 1
           created == Append(tasks, Task(input.description, input.duration,
                                         input.priority, input.time))
           added == add_task(pets, created, 1, t)
       IN /\ pets' = added.pets
          /\ tasks' = added.tasks
    /\ UNCHANGED <<owner, other_owner, pc, locals, result, call>>

FixedNext ==
    \/ \E input \in FixedTaskInputs : EnterFixedTask(input)
    \/ GenerateBegin
    \/ PlaceFixed
    \/ FixedDone
    \/ PlaceFlexible
    \/ GenerateFinish

FixedSpec == FixedInit /\ [][FixedNext]_vars

\* minutes after midnight of a task's clock time
ClockMinutes(t) == tasks[t].time[1] * 60 + tasks[t].time[2]

\* the pass is inside or behind its loops
InPass == pc \in {"placing-fixed", "placing-flexible", "done"}

\* how many entries of fixed_time_tasks the fixed loop has gone through
FixedHandled == IF pc = "placing-fixed" THEN idx - 1 ELSE Len(fixed_time_tasks)

IsScheduled(t) == t \in Range(EntryTasks(scheduled_tasks))

IsSkipped(t) == t \in Range(EntryTasks(skipped_tasks))

\* the minutes of the fixed-time tasks scheduled among the first n of the order
RECURSIVE FixedMinutesScheduled(_)
FixedMinutesScheduled(n) ==
    IF n = 0 THEN 0
    ELSE FixedMinutesScheduled(n - 1)
         + (IF IsScheduled(fixed_time_tasks[n])
            THEN tasks[fixed_time_tasks[n]].duration[1] ELSE 0)

\* C33: the fixed-time tasks are gone through in ascending clock time, the
\* higher priority first at equal times, all of them before any flexible
\* task; one with a valid duration is skipped exactly when its duration
\* exceeds available_time_minutes less the durations of the fixed-time tasks
\* scheduled before it in that order.
C33_FixedBeforeFlexible ==
    InPass =>
       /\ \A i, j \in 1..Len(fixed_time_tasks) :
             i < j =>
                \/ ClockMinutes(fixed_time_tasks[i]) < ClockMinutes(fixed_time_tasks[j])
                \/ /\ ClockMinutes(fixed_time_tasks[i]) = ClockMinutes(fixed_time_tasks[j])
                   /\ tasks[fixed_time_tasks[i]].priority >= tasks[fixed_time_tasks[j]].priority
       /\ Range(fixed_time_tasks) = {t \in Range(all_tasks) : tasks[t].time # None}
       /\ \A i \in 1..Len(fixed_time_tasks) :
             (IsScheduled(fixed_time_tasks[i]) \/ IsSkipped(fixed_time_tasks[i]))
                <=> i <= FixedHandled
       /\ pc = "placing-fixed" =>
             \A t \in Range(all_tasks) :
                tasks[t].time = None => ~IsScheduled(t) /\ ~IsSkipped(t)
       /\ \A i \in 1..FixedHandled :
             LET t == fixed_time_tasks[i]
             IN ValidDuration(t) =>
                   (IsSkipped(t) <=>
                       tasks[t].duration[1] >
                          owner.available_time_minutes - FixedMinutesScheduled(i - 1))

\* a pass has skipped the lower of two fixed-time tasks at the same clock
\* time for want of minutes, although it was entered first, and has then
\* scheduled a flexible task of high priority
C33_Witness ==
    /\ pc = "done"
    /\ \E t, u, f \in 1..Len(tasks) :
          /\ t < u
          /\ tasks[t].time # None /\ tasks[u].time = tasks[t].time
          /\ tasks[t].priority < tasks[u].priority
          /\ IsScheduled(u) /\ IsSkipped(t) /\ ValidDuration(t)
          /\ tasks[f].time = None /\ tasks[f].priority = HIGH /\ IsScheduled(f)

\* C34 as claimed: for every collection of occupied intervals of a pass,
\* _calculate_free_time over the day equals the number of minutes of the day
\* that no occupied interval covers, overlapping intervals included.
C34_FreeTimeIsUncoveredMinutes ==
    InPass =>
        _calculate_free_time(occupied_intervals, 0, day_end_time)
            = FreeMinutesOfDay(occupied_intervals)

(***************************************************************************)
(* The "Clear Schedule" button: tasks of both pets are entered, given any  *)
(* status, scheduled or skipped by a generation pass, and the button is    *)
(* pressed with or without a stored schedule.                              *)
(***************************************************************************)
MaxClearTasks == 3

ClearInputs ==
    { [pet |-> 1, description |-> "Feed", time |-> None, duration |-> Some(30),
       priority |-> HIGH, frequency |-> "once", due_date |-> None],
      [pet |-> 2, description |-> "Meds", time |-> <<8, 0>>, duration |-> Some(30),
       priority |-> MEDIUM, frequency |-> "once", due_date |-> None],
      [pet |-> 1, description |-> "Vet", time |-> None, duration |-> Some(20),
       priority |-> LOW, frequency |-> "weekly", due_date |-> Some(Today)] }

\* Task(...) followed by pet.add_task(task), before a schedule is generated
EnterClearTask(input) ==
    /\ pc = "idle"
    /\ Len(tasks) < MaxClearTasks
    /\ LET t == Len(tasks) + 1
           created == Append(tasks, RecurringTask(input.description, input.duration,
                                                  input.priority, input.frequency,
                                                  input.time, input.due_date))
           added == add_task(pets, created, input.pet, t)
       IN /\ pets' = added.pets
          /\ tasks' = added.tasks
    /\ call' = NoCall
    /\ NotGenerating

\* the "Clear Schedule" button: st.session_state.schedule = None, then
\* task.change_status("pending") for every task of every pet of the owner;
\* the call record keeps the stored schedule and the tasks it found
ClearPressed ==
    /\ AtRest
    /\ tasks' = clear_schedule(owner, pets, tasks)
    /\ call' = [ op |-> "Clear Schedule", stored |-> result, before |-> tasks,
                 returned |-> None, raised |-> None ]
    /\ pets' = pets
    /\ NotGenerating

ClearNext ==
    \/ \E input \in ClearInputs : EnterClearTask(input)
    \/ \E t \in 1..MaxClearTasks, new_status \in Statuses : ChangeStatus(t, new_status)
    \/ Generate
    \/ ClearPressed

ClearSpec == LifeInit /\ [][ClearNext]_vars

\* the task lists of the owner's pets, one after the other
TasksOfOwner == Concat([i \in 1..Len(owner.pets) |-> pets[owner.pets[i]].tasks])

\* C35: once "Clear Schedule" has run, no schedule is stored, every task of
\* every pet of the owner is pending whatever its status was, and a
\* generate_schedule called next gathers all of the owner's tasks.
C35_ClearSchedule ==
    Called("Clear Schedule") =>
        /\ result = None
        /\ \A t \in OwnerTasks(owner, pets) : tasks[t].status = "pending"
        /\ GatherPending(owner, pets, tasks) = TasksOfOwner
        /\ OwnerTasks(owner, pets) # {} =>
              generate_schedule(owner, pets, tasks).result.explanation.text
                 # "No pending tasks to schedule."

\* the button was pressed with a schedule stored and with a scheduled, a
\* skipped and a completed task among the owner's, in both pets
C35_Witness ==
    /\ Called("Clear Schedule")
    /\ call.stored # None
    /\ \E t, u, v \in OwnerTasks(owner, pets) :
          /\ call.before[t].status = "scheduled"
          /\ call.before[u].status = "skipped"
          /\ call.before[v].status = "completed"
          /\ call.before[t].pet # call.before[u].pet

\* the step is a call of generate_schedule that has returned
GenerateReturns == pc' \in {"done", "no-pending-tasks"}

\* C36: generate_schedule leaves the owner's available_time_minutes,
\* preferences and pets, every pet's task list, and the task objects as they
\* are; of a task it changes at most the status, and only of a task that was
\* pending in the list of one of the owner's pets.
C36_GenerateFrame ==
    [][GenerateReturns =>
          /\ owner' = owner
          /\ pets' = pets
          /\ Len(tasks') = Len(tasks)
          /\ \A t \in 1..Len(tasks) :
                /\ tasks'[t] = [tasks[t] EXCEPT !.status = tasks'[t].status]
                /\ (tasks[t].status # "pending" \/ t \notin OwnerTasks(owner, pets))
                      => tasks'[t] = tasks[t]]_vars

\* a call has returned that scheduled one task and skipped another while a
\* completed task and a skipped task of the owner's pets stayed out of it
C36_Witness ==
    /\ pc = "done"
    /\ \E t \in ScheduledIn(result) : tasks[t].status = "scheduled"
    /\ \E t \in SkippedIn(result) : tasks[t].status = "skipped"
    /\ \E u \in OwnerTasks(owner, pets) \ Range(all_tasks) : tasks[u].status = "completed"

(***************************************************************************)
(* Generation over tasks that were added to pets by hand: a task created   *)
(* without a pet is added to one pet or to both, and a schedule is         *)
(* generated.                                                              *)
(***************************************************************************)
ShareNext ==
    \/ \E input \in PetInputs : CreateTask(input)
    \/ \E p \in 1..Len(PetNames), t \in 1..MaxPetTasks : PetAddTask(p, t)
    \/ Generate

ShareSpec == LifeInit /\ [][ShareNext]_vars

\* C37 as claimed: when generate_schedule has returned, no gathered task
\* with a valid duration is pending; a gathered task has status scheduled
\* exactly when it is in scheduled_tasks, and status skipped exactly when it
\* is in skipped_tasks with a valid duration.
C37_StatusMatchesLists ==
    pc = "done" =>
        \A t \in Range(all_tasks) :
           /\ ValidDuration(t) => tasks[t].status # "pending"
           /\ tasks[t].status = "scheduled" <=> t \in ScheduledIn(result)
           /\ tasks[t].status = "skipped" <=> (t \in SkippedIn(result) /\ ValidDuration(t))

\* C38: in every returned schedule each scheduled entry ends at its start
\* plus the duration of its task, that duration is above 0, and
\* total_time_used is the sum of the durations of the tasks in
\* scheduled_tasks.
C38_EntriesAndTotal ==
    pc = "done" =>
        /\ \A i \in 1..Len(result.scheduled_tasks) :
              LET entry == result.scheduled_tasks[i]
                  duration == tasks[entry.task].duration
              IN /\ duration # None
                 /\ duration[1] > 0
                 /\ entry.end_time_minutes = entry.start_time_minutes + duration[1]
        /\ result.total_time_used = SumDurations(result.scheduled_tasks)

\* a returned schedule holds a fixed-time and a flexible entry, and a third
\* task was skipped
C38_Witness ==
    /\ pc = "done"
    /\ \E i, j \in 1..Len(result.scheduled_tasks) :
          /\ tasks[result.scheduled_tasks[i].task].time # None
          /\ tasks[result.scheduled_tasks[j].task].time = None
    /\ result.total_time_used > 0
    /\ result.skipped_tasks # <<>>

\* C39: every scheduled flexible task lies inside the day, 0 <= start and
\* end <= 1440, whatever fixed-time tasks, budget and preference; only
\* fixed-time entries may end after 1440.
C39_FlexibleInsideDay ==
    InPass =>
        \A i \in 1..Len(scheduled_tasks) :
           tasks[scheduled_tasks[i].task].time = None =>
              /\ 0 <= scheduled_tasks[i].start_time_minutes
              /\ scheduled_tasks[i].end_time_minutes <= day_end_time

\* a returned schedule holds a flexible entry next to a fixed-time entry
\* that ends after 1440
C39_Witness ==
    /\ pc = "done"
    /\ \E i, j \in 1..Len(scheduled_tasks) :
          /\ tasks[scheduled_tasks[i].task].time = None
          /\ tasks[scheduled_tasks[j].task].time # None
          /\ scheduled_tasks[j].end_time_minutes > day_end_time

\* a flexible task was placed so that it ends with the day
C39_WitnessEndOfDay ==
    /\ InPass
    /\ \E i \in 1..Len(scheduled_tasks) :
          /\ tasks[scheduled_tasks[i].task].time = None
          /\ scheduled_tasks[i].end_time_minutes = day_end_time

====
